---- MODULE Spec2Model ----
(***************************************************************************)
(* Kora rent reclaimer: the account store (database.ts), the scanner       *)
(* (scanner.ts), the safety gate (safety.ts) and the reclaim engine        *)
(* (reclaim.ts), driven by the CLI commands of index.ts.                   *)
(*                                                                         *)
(* Units.  Time is counted in ticks, TicksPerDay ticks to a day; amounts   *)
(* are counted in units, LamportsPerSol units to one SOL.  Both are scaled *)
(* down from the source (86_400_000 ms, 1e9 lamports) so that the          *)
(* comparisons of the code stay exact in bounded integers.                 *)
(***************************************************************************)
EXTENDS Integers, Sequences, FiniteSets, TLC

VARIABLES
    store,          \* sponsored_accounts: pubkey -> row (tracked accounts only)
    rowOrder,       \* the tracked pubkeys in rowid order
    history,        \* reclaim_history rows, oldest first
    dbWhitelist,    \* whitelist table
    cfgWhitelist,   \* ConfigManager.whitelist (whitelist.json)
    chain,          \* on-chain account info per pubkey (external)
    now,            \* wall clock, in ticks (UTC)
    env,            \* process environment: tz, minIdleDays, maxReclaimSolPerRun
    walletReadable, \* the operator wallet file can be read
    treasurySet,    \* TREASURY_ADDRESS is configured
    totalReclaimedThisRun, \* SafetyManager.totalReclaimedThisRun
    run,            \* the reclaim run in progress (phase "idle" when none)
    ghost           \* history variables used by the properties only

vars == <<store, rowOrder, history, dbWhitelist, cfgWhitelist, chain, now, env,
          walletReadable, treasurySet, totalReclaimedThisRun, run, ghost>>

\* ------------------------------------------------------------------ bounds
MaxTime == 2            \* the clock stops at this tick
MaxRuns == 1            \* reclaim runs started in one behaviour
MaxApproved == 12       \* longest approved list handed to the executor alone
MaxSplit == 23          \* longest list split by createBatches on its own
MaxJobs == 2            \* scheduled runs fired in one behaviour

\* --------------------------------------------------------- program constants
MAX_RETRIES == 3        \* reclaim.ts
RETRY_DELAY == 1000
MAX_INSTRUCTIONS == 10  \* reclaim.ts, instructions per transaction
TicksPerDay == 2        \* one day (1000*60*60*24 ms in the source)
LamportsPerSol == 2     \* one SOL (1e9 lamports in the source)
BatchSize == 100        \* config.batchSize default

MainKeys == {1}
OperatorKey == "op"
OtherKey == "other"
NullStr == "null"
NoTime == <<>>
At(t) == <<t>>
TimeOf(ts) == ts[1]

Min(a, b) == IF a < b THEN a ELSE b
Max(a, b) == IF a > b THEN a ELSE b
Range(q) == {q[i] : i \in 1..Len(q)}

RECURSIVE SumSeq(_)
SumSeq(q) == IF q = <<>> THEN 0 ELSE Head(q) + SumSeq(Tail(q))

RECURSIVE FilterSeq(_, _)
\* the elements of q that are in set S, in q's order
FilterSeq(q, S) ==
    IF q = <<>> THEN <<>>
    ELSE IF Head(q) \in S THEN <<Head(q)>> \o FilterSeq(Tail(q), S)
         ELSE FilterSeq(Tail(q), S)

\* ------------------------------------------------------------ on-chain info
\* What getAccountInfo / getMultipleAccountsInfo and the token-account decoder
\* expose.  lamports is the rent locked in the account.
RentOf(pk) == 1 + (pk % 2)

Absent == [exists |-> FALSE]

ChainInfo(pk, owner, executable, decodes, option, closeAuth, tokenOwner, amount) ==
    [exists |-> TRUE, lamports |-> RentOf(pk), owner |-> owner,
     executable |-> executable, decodes |-> decodes,
     closeAuthorityOption |-> option, closeAuthority |-> closeAuth,
     tokenOwner |-> tokenOwner, amount |-> amount]

TokenOp(pk) == ChainInfo(pk, "token", FALSE, TRUE, 1, OperatorKey, OtherKey, 0)
TokenOpFunded(pk) == ChainInfo(pk, "token", FALSE, TRUE, 1, OperatorKey, OtherKey, 1)
TokenOther(pk) == ChainInfo(pk, "token", FALSE, TRUE, 1, OtherKey, OtherKey, 0)

ChainStates(pk) ==
    {Absent, TokenOp(pk), TokenOpFunded(pk), TokenOther(pk)}

\* The authority that can close a token account on-chain.
EffectiveAuthority(info) ==
    IF info.closeAuthorityOption = 1 THEN info.closeAuthority ELSE info.tokenOwner

OperatorIsAuthority(info) ==
    /\ info.exists
    /\ info.owner = "token"
    /\ info.decodes
    /\ EffectiveAuthority(info) = OperatorKey

\* ------------------------------------------------------------ time strings
\* SQLite datetime('now') writes UTC text "YYYY-MM-DD HH:MM:SS"; the model
\* keeps the tick it denotes.
DatetimeNow(t) == At(t)

\* new Date(text) on that text (no zone designator) reads it as local time:
\* the instant it returns is the stored UTC instant shifted by the zone offset.
ParseDate(ts, tz) == TimeOf(ts) - tz


\* ---------------------------------------------------------------- database
\* The row kora.importFromFile / discoverFromFeePayer / addAccount build.
ImportedRow ==
    [status |-> "active", lamports |-> 0, lastChecked |-> NoTime,
     reclaimableSince |-> NoTime, closeAuthority |-> NullStr,
     operatorCanClose |-> FALSE]

Tracked(s, pk) == pk \in DOMAIN s

\* INSERT OR REPLACE of one row: the old row of that pubkey, if any, is deleted
\* and the new one inserted with a fresh rowid.
addAccount(db, pk, row) ==
    [rows  |-> [k \in (DOMAIN db.rows) \cup {pk} |->
                   IF k = pk THEN row ELSE db.rows[k]],
     order |-> FilterSeq(db.order, (DOMAIN db.rows) \ {pk}) \o <<pk>>]

RECURSIVE addAccountsBatch(_, _, _)
addAccountsBatch(db, pks, row) ==
    IF pks = <<>> THEN db
    ELSE addAccountsBatch(addAccount(db, Head(pks), row), Tail(pks), row)

getAccount(s, pk) == IF Tracked(s, pk) THEN s[pk] ELSE NullStr

\* SELECT * FROM sponsored_accounts WHERE status = 'active', in rowid order
getActiveAccounts(s, order) ==
    FilterSeq(order, {pk \in DOMAIN s : s[pk].status = "active"})

\* mutant: the status column is left as it was
updateAccountStatusKeepsStatus(s, pk, status, lamports, t) ==
    IF Tracked(s, pk)
    THEN [s EXCEPT ![pk].lamports = lamports, ![pk].lastChecked = DatetimeNow(t)]
    ELSE s

\* mutant: the lamports column is left as it was
updateAccountStatusNoLamports(s, pk, status, lamports, t) ==
    IF Tracked(s, pk)
    THEN [s EXCEPT ![pk].status = status, ![pk].lastChecked = DatetimeNow(t)]
    ELSE s

\* UPDATE ... SET status, lamports, last_checked = datetime('now')
updateAccountStatus(s, pk, status, lamports, t) ==
    IF Tracked(s, pk)
    THEN [s EXCEPT ![pk].status = status, ![pk].lamports = lamports,
                   ![pk].lastChecked = DatetimeNow(t)]
    ELSE s

\* the same with the lamports argument left out
updateAccountStatusOnly(s, pk, status, t) ==
    IF Tracked(s, pk)
    THEN [s EXCEPT ![pk].status = status, ![pk].lastChecked = DatetimeNow(t)]
    ELSE s

updateAccountAuthority(s, pk, closeAuthority, operatorCanClose) ==
    IF Tracked(s, pk)
    THEN [s EXCEPT ![pk].closeAuthority = closeAuthority,
                   ![pk].operatorCanClose = operatorCanClose]
    ELSE s

\* UPDATE ... SET reclaimable_since = datetime('now')
\*   WHERE pubkey = ? AND reclaimable_since IS NULL
markAsReclaimable(s, pk, t) ==
    IF Tracked(s, pk) /\ s[pk].reclaimableSince = NoTime
    THEN [s EXCEPT ![pk].reclaimableSince = DatetimeNow(t)]
    ELSE s

clearReclaimableState(s, pk) ==
    IF Tracked(s, pk)
    THEN [s EXCEPT ![pk].reclaimableSince = NoTime]
    ELSE s

addReclaimHistory(h, pk, lamports, status, reason, txSignature) ==
    Append(h, [pubkey |-> pk, lamportsReclaimed |-> lamports, status |-> status,
               reason |-> reason, txSignature |-> txSignature])

\* ------------------------------------------------------------------ config
\* ConfigManager.loadOperatorKeypair: the operator's public key, or a throw
\* (modelled as NullStr) when the wallet file cannot be read.
loadOperatorKeypair(readable) == IF readable THEN OperatorKey ELSE NullStr

\* mutant: the static configuration whitelist is not consulted
isWhitelistedDbOnly(wl, pk) == pk \in wl.db

\* SafetyManager.isWhitelisted: the persisted set or the static one
isWhitelisted(wl, pk) == pk \in wl.db \/ pk \in wl.cfg

\* ----------------------------------------------------------------- scanner
NewStatus(pk, info) ==
    [pubkey |-> pk,
     exists |-> info.exists,
     lamports |-> IF info.exists THEN info.lamports ELSE 0,
     owner |-> IF info.exists THEN info.owner ELSE NullStr,
     executable |-> IF info.exists THEN info.executable ELSE FALSE,
     isTokenAccount |-> FALSE,
     isReclaimable |-> FALSE,
     skipReason |-> NullStr,
     closeAuthority |-> NullStr,
     operatorCanClose |-> FALSE]

\* the status scanBatch / scanSingleAccount push when a fetch fails
FailedStatus(pk) ==
    [NewStatus(pk, Absent) EXCEPT !.skipReason = "Failed to fetch account info"]

\* Scanner.checkSafetyRules: a skip reason, or NullStr
checkSafetyRules(s, wl, pk, info, t, cfg) ==
    IF isWhitelisted(wl, pk) THEN "Account is whitelisted"
    ELSE IF info.executable THEN "Executable program account"
    ELSE IF /\ Tracked(s, pk)
            /\ s[pk].lastChecked # NoTime
            /\ (t - ParseDate(s[pk].lastChecked, cfg.tz))
                   < cfg.minIdleDays * TicksPerDay
         THEN "Account active within last minIdleDays days"
    ELSE NullStr

\* mutant: the close-authority field is read whether or not it is set
analyzeAccountFieldOnly(s, wl, pk, info, operatorPubkey, t, cfg, writeFails) ==
    LET status == NewStatus(pk, info) IN
    IF ~info.exists
    THEN [status |-> [status EXCEPT !.skipReason = "Account already closed"],
          db |-> updateAccountStatus(s, pk, "closed", 0, t),
          threw |-> writeFails]
    ELSE
    LET st1 == [status EXCEPT !.isTokenAccount = (info.owner = "token")]
        skipReason == checkSafetyRules(s, wl, pk, info, t, cfg)
    IN
    IF skipReason # NullStr
    THEN [status |-> [st1 EXCEPT !.skipReason = skipReason], db |-> s,
          threw |-> FALSE]
    ELSE IF info.owner = "system"
    THEN [status |-> [st1 EXCEPT !.skipReason = "System account"], db |-> s,
          threw |-> FALSE]
    ELSE IF st1.isTokenAccount
    THEN IF ~info.decodes
         THEN [status |-> [st1 EXCEPT !.skipReason = "Failed to decode token account"],
               db |-> s, threw |-> FALSE]
         ELSE
         LET closeAuthority == info.closeAuthority
             can == operatorPubkey # NullStr /\ closeAuthority = operatorPubkey
             s1 == IF can THEN markAsReclaimable(s, pk, t)
                          ELSE clearReclaimableState(s, pk)
         IN IF writeFails
            THEN [status |-> [st1 EXCEPT !.closeAuthority = closeAuthority,
                                         !.operatorCanClose = FALSE,
                                         !.isReclaimable = can,
                                         !.skipReason =
                                             "Failed to decode token account"],
                  db |-> s1, threw |-> FALSE]
            ELSE [status |-> [st1 EXCEPT !.closeAuthority = closeAuthority,
                                         !.operatorCanClose = can,
                                         !.isReclaimable = can,
                                         !.skipReason = IF can THEN NullStr
                                             ELSE "Operator is not close authority"],
                  db |-> updateAccountAuthority(s1, pk, closeAuthority, can),
                  threw |-> FALSE]
    ELSE [status |-> [st1 EXCEPT !.skipReason = "Program-owned account"], db |-> s,
          threw |-> FALSE]

\* Scanner.analyzeAccount: the AccountStatus it returns and the store it leaves.
\* writeFails: the store writes made for this account throw.  A write is
\* db.run on the in-memory database followed by save(), which writes the file
\* and has no catch: the row is changed, then the call throws.  threw: the
\* exception leaves analyzeAccount (the write of the closed branch); the try
\* of the token branch catches the one of its own writes.
analyzeAccount(s, wl, pk, info, operatorPubkey, t, cfg, writeFails) ==
    LET status == NewStatus(pk, info) IN
    IF ~info.exists
    THEN [status |-> [status EXCEPT !.skipReason = "Account already closed"],
          db |-> updateAccountStatus(s, pk, "closed", 0, t),
          threw |-> writeFails]
    ELSE
    LET st1 == [status EXCEPT !.isTokenAccount = (info.owner = "token")]
        skipReason == checkSafetyRules(s, wl, pk, info, t, cfg)
    IN
    IF skipReason # NullStr
    THEN [status |-> [st1 EXCEPT !.skipReason = skipReason], db |-> s,
          threw |-> FALSE]
    ELSE IF info.owner = "system"
    THEN [status |-> [st1 EXCEPT !.skipReason = "System account"], db |-> s,
          threw |-> FALSE]
    ELSE IF st1.isTokenAccount
    THEN IF ~info.decodes
         THEN [status |-> [st1 EXCEPT !.skipReason = "Failed to decode token account"],
               db |-> s, threw |-> FALSE]
         ELSE
         LET closeAuthority == IF info.closeAuthorityOption = 1
                               THEN info.closeAuthority
                               ELSE info.tokenOwner
             can == operatorPubkey # NullStr /\ closeAuthority = operatorPubkey
             s1 == IF can THEN markAsReclaimable(s, pk, t)
                          ELSE clearReclaimableState(s, pk)
         IN IF writeFails
            THEN [status |-> [st1 EXCEPT !.closeAuthority = closeAuthority,
                                         !.operatorCanClose = FALSE,
                                         !.isReclaimable = can,
                                         !.skipReason =
                                             "Failed to decode token account"],
                  db |-> s1, threw |-> FALSE]
            ELSE [status |-> [st1 EXCEPT !.closeAuthority = closeAuthority,
                                         !.operatorCanClose = can,
                                         !.isReclaimable = can,
                                         !.skipReason = IF can THEN NullStr
                                             ELSE "Operator is not close authority"],
                  db |-> updateAccountAuthority(s1, pk, closeAuthority, can),
                  threw |-> FALSE]
    ELSE [status |-> [st1 EXCEPT !.skipReason = "Program-owned account"], db |-> s,
          threw |-> FALSE]

\* the catch of scanSingleAccount: whatever analyzeAccount throws gives the
\* failed status
Caught(pk, r) ==
    [status |-> IF r.threw THEN FailedStatus(pk) ELSE r.status, db |-> r.db]

\* mutant: an account whose fetch fails is taken for a closed one
scanSingleAccountClosesUnfetched(s, wl, pk, ch, fetchFail, operatorPubkey, t, cfg, badWrite) ==
    IF pk \in fetchFail
    THEN [status |-> FailedStatus(pk),
          db |-> updateAccountStatus(s, pk, "closed", 0, t)]
    ELSE Caught(pk, analyzeAccount(s, wl, pk, ch[pk], operatorPubkey, t, cfg,
                                   pk \in badWrite))

\* Scanner.scanSingleAccount: getAccountInfo then analyzeAccount; a failed fetch
\* gives the failed status and leaves the store alone, and so does whatever
\* analyzeAccount throws
scanSingleAccount(s, wl, pk, ch, fetchFail, operatorPubkey, t, cfg, badWrite) ==
    IF pk \in fetchFail
    THEN [status |-> FailedStatus(pk), db |-> s]
    ELSE Caught(pk, analyzeAccount(s, wl, pk, ch[pk], operatorPubkey, t, cfg,
                                   pk \in badWrite))

\* statuses.push(status), then what the rest of the loop gives
Pushed(status, rest) ==
    [statuses |-> <<status>> \o rest.statuses, db |-> rest.db]

RECURSIVE scanFallback(_, _, _, _, _, _, _, _, _)
\* one turn of the catch branch of scanBatch, r being what scanSingleAccount
\* gave for the account before pks
scanFallbackTurn(r, wl, pks, ch, fetchFail, operatorPubkey, t, cfg, badWrite) ==
    Pushed(r.status,
           scanFallback(r.db, wl, pks, ch, fetchFail, operatorPubkey, t, cfg,
                        badWrite))

\* the catch branch of scanBatch: one scanSingleAccount per account
scanFallback(s, wl, pks, ch, fetchFail, operatorPubkey, t, cfg, badWrite) ==
    IF pks = <<>> THEN [statuses |-> <<>>, db |-> s]
    ELSE scanFallbackTurn(
             scanSingleAccount(s, wl, Head(pks), ch, fetchFail, operatorPubkey,
                               t, cfg, badWrite),
             wl, Tail(pks), ch, fetchFail, operatorPubkey, t, cfg, badWrite)

\* the update of the row in the bulk loop of scanBatch
updateScanned(s, pk, info, t) ==
    IF ~info.exists
    THEN updateAccountStatus(s, pk, "closed", 0, t)
    ELSE updateAccountStatus(s, pk, "active", info.lamports, t)

RECURSIVE scanBulk(_, _, _, _, _, _, _, _, _, _)
\* one turn of the bulk loop of scanBatch for the account Head(pks), r being
\* what analyzeAccount gave for it: push the status, update the row, go on.
\* When a store write throws, the catch of scanBatch runs: the statuses
\* pushed until then stay in the list and every account of the batch is
\* scanned by scanSingleAccount.
scanBulkTurn(r, wl, pks, batch, ch, fetchFail, operatorPubkey, t, cfg, badWrite) ==
    IF r.threw
    THEN scanFallback(r.db, wl, batch, ch, fetchFail, operatorPubkey, t, cfg,
                      badWrite)
    ELSE Pushed(r.status,
                IF Head(pks) \in badWrite
                THEN scanFallback(updateScanned(r.db, Head(pks), ch[Head(pks)], t),
                                  wl, batch, ch, fetchFail, operatorPubkey, t,
                                  cfg, badWrite)
                ELSE scanBulk(updateScanned(r.db, Head(pks), ch[Head(pks)], t),
                              wl, Tail(pks), batch, ch, fetchFail,
                              operatorPubkey, t, cfg, badWrite))

\* the try of scanBatch after the bulk fetch answered, from the account
\* Head(pks) of the batch on
scanBulk(s, wl, pks, batch, ch, fetchFail, operatorPubkey, t, cfg, badWrite) ==
    IF pks = <<>> THEN [statuses |-> <<>>, db |-> s]
    ELSE scanBulkTurn(analyzeAccount(s, wl, Head(pks), ch[Head(pks)],
                                     operatorPubkey, t, cfg,
                                     Head(pks) \in badWrite),
                      wl, pks, batch, ch, fetchFail, operatorPubkey, t, cfg,
                      badWrite)

\* mutant: a failed bulk fetch ends the batch, without the per-account fetches
scanBatchNoFallback(s, wl, pks, ch, bulkOk, fetchFail, operatorPubkey, t, cfg, badWrite) ==
    IF bulkOk
    THEN scanBulk(s, wl, pks, pks, ch, fetchFail, operatorPubkey, t, cfg, badWrite)
    ELSE [statuses |-> <<>>, db |-> s]

\* Scanner.scanBatch.  bulkOk: getMultipleAccountsInfo answered; fetchFail: the
\* accounts whose single getAccountInfo fails in the fallback; badWrite: the
\* accounts whose store writes throw.  The catch runs for whatever the try
\* throws, over the whole batch (see scanBulk).
scanBatch(s, wl, pks, ch, bulkOk, fetchFail, operatorPubkey, t, cfg, badWrite) ==
    IF bulkOk
    THEN scanBulk(s, wl, pks, pks, ch, fetchFail, operatorPubkey, t, cfg, badWrite)
    ELSE scanFallback(s, wl, pks, ch, fetchFail, operatorPubkey, t, cfg, badWrite)

RECURSIVE SelectSeq2(_, _)
\* the statuses with isReclaimable = flag, in order
SelectSeq2(q, flag) ==
    IF q = <<>> THEN <<>>
    ELSE IF Head(q).isReclaimable = flag
         THEN <<Head(q)>> \o SelectSeq2(Tail(q), flag)
         ELSE SelectSeq2(Tail(q), flag)

\* the statuses of a batch, then those of the batches after it
Joined(statuses, rest) ==
    [statuses |-> statuses \o rest.statuses, db |-> rest.db]

RECURSIVE scanLoop(_, _, _, _, _, _, _, _, _, _)
\* one turn of the batch loop of scanAccounts, r being what scanBatch gave
\* for the batch before pks
scanLoopTurn(r, wl, pks, ch, bulkOk, fetchFail, operatorPubkey, t, cfg, badWrite) ==
    Joined(r.statuses,
           scanLoop(r.db, wl, pks, ch, bulkOk, fetchFail, operatorPubkey, t, cfg,
                    badWrite))

\* the batch loop of scanAccounts
scanLoop(s, wl, pks, ch, bulkOk, fetchFail, operatorPubkey, t, cfg, badWrite) ==
    IF pks = <<>> THEN [statuses |-> <<>>, db |-> s]
    ELSE scanLoopTurn(
             scanBatch(s, wl, SubSeq(pks, 1, Min(BatchSize, Len(pks))), ch,
                       bulkOk, fetchFail, operatorPubkey, t, cfg, badWrite),
             wl, SubSeq(pks, Min(BatchSize, Len(pks)) + 1, Len(pks)), ch,
             bulkOk, fetchFail, operatorPubkey, t, cfg, badWrite)

\* the ScanResult made of the statuses the batches gave
ScanResult(accounts, r) ==
    [result |-> [total |-> Len(accounts),
                 scanSet |-> accounts,
                 reclaimable |-> SelectSeq2(r.statuses, TRUE),
                 skipped |-> SelectSeq2(r.statuses, FALSE)],
     db |-> r.db]

\* Scanner.scanAccounts: the ScanResult and the store it leaves
scanAccounts(s, order, wl, ch, bulkOk, fetchFail, readable, t, cfg, badWrite) ==
    ScanResult(getActiveAccounts(s, order),
               scanLoop(s, wl, getActiveAccounts(s, order), ch, bulkOk,
                        fetchFail, loadOperatorKeypair(readable), t, cfg,
                        badWrite))


\* ------------------------------------------------------------- safety gate
Allow == [allowed |-> TRUE, reason |-> NullStr]
Deny(reason) == [allowed |-> FALSE, reason |-> reason]

ReasonAuthority  == "Operator is not the close authority"
ReasonWhitelist  == "Account is whitelisted"
ReasonExecutable == "Executable program account"
ReasonClosed     == "Account already closed"
ReasonNotIdleYet == "Account not yet in idle/reclaimable state"
ReasonTooRecent  == "Account reclaimable for less than minIdleDays"
ReasonLimit      == "Would exceed max reclaim limit"

\* SafetyManager.checkIdleDuration
checkIdleDuration(s, pk, t, cfg) ==
    IF ~Tracked(s, pk) THEN Allow
    ELSE IF s[pk].reclaimableSince = NoTime THEN Deny(ReasonNotIdleYet)
    ELSE IF (t - ParseDate(s[pk].reclaimableSince, cfg.tz))
                < cfg.minIdleDays * TicksPerDay
         THEN Deny(ReasonTooRecent)
    ELSE Allow

\* SafetyManager.checkReclaimLimit:
\*   totalReclaimedThisRun / 1e9 + lamports / 1e9 > maxReclaimSolPerRun
checkReclaimLimit(lamports, total, cfg) ==
    IF total + lamports > cfg.maxReclaimSolPerRun * LamportsPerSol
    THEN Deny(ReasonLimit)
    ELSE Allow

\* mutant: the authority check left out
checkAccountNoAuthority(account, s, wl, total, t, cfg) ==
    IF isWhitelisted(wl, account.pubkey) THEN Deny(ReasonWhitelist)
    ELSE IF account.executable THEN Deny(ReasonExecutable)
    ELSE IF ~account.exists THEN Deny(ReasonClosed)
    ELSE IF ~checkIdleDuration(s, account.pubkey, t, cfg).allowed
         THEN checkIdleDuration(s, account.pubkey, t, cfg)
    ELSE checkReclaimLimit(account.lamports, total, cfg)

\* mutant: the idle check made before the authority check
checkAccountIdleFirst(account, s, wl, total, t, cfg) ==
    IF ~checkIdleDuration(s, account.pubkey, t, cfg).allowed
    THEN checkIdleDuration(s, account.pubkey, t, cfg)
    ELSE IF ~account.operatorCanClose THEN Deny(ReasonAuthority)
    ELSE IF isWhitelisted(wl, account.pubkey) THEN Deny(ReasonWhitelist)
    ELSE IF account.executable THEN Deny(ReasonExecutable)
    ELSE IF ~account.exists THEN Deny(ReasonClosed)
    ELSE checkReclaimLimit(account.lamports, total, cfg)

\* SafetyManager.checkAccount
checkAccount(account, s, wl, total, t, cfg) ==
    IF ~account.operatorCanClose THEN Deny(ReasonAuthority)
    ELSE IF isWhitelisted(wl, account.pubkey) THEN Deny(ReasonWhitelist)
    ELSE IF account.executable THEN Deny(ReasonExecutable)
    ELSE IF ~account.exists THEN Deny(ReasonClosed)
    ELSE IF ~checkIdleDuration(s, account.pubkey, t, cfg).allowed
         THEN checkIdleDuration(s, account.pubkey, t, cfg)
    ELSE checkReclaimLimit(account.lamports, total, cfg)

RECURSIVE filterSafeAccounts(_, _, _, _, _, _)
\* SafetyManager.filterSafeAccounts: the safe list (the filtered list is only logged)
filterSafeAccounts(accounts, s, wl, total, t, cfg) ==
    IF accounts = <<>> THEN <<>>
    ELSE (IF checkAccount(Head(accounts), s, wl, total, t, cfg).allowed
          THEN <<Head(accounts)>> ELSE <<>>)
         \o filterSafeAccounts(Tail(accounts), s, wl, total, t, cfg)

\* mutant: the budget left does not go down with what the run reclaimed
getRemainingBudgetIgnoresTotal(total, cfg) ==
    cfg.maxReclaimSolPerRun * LamportsPerSol

\* SafetyManager.getRemainingBudget
getRemainingBudget(total, cfg) ==
    Max(0, cfg.maxReclaimSolPerRun * LamportsPerSol - total)

\* ----------------------------------------------------------- reclaim engine
\* mutant: the incomplete last batch is dropped
createBatchesFloor(accounts, maxPerBatch) ==
    [b \in 1..(Len(accounts) \div maxPerBatch) |->
        SubSeq(accounts, (b - 1) * maxPerBatch + 1, b * maxPerBatch)]

\* ReclaimEngine.createBatches
createBatches(accounts, maxPerBatch) ==
    [b \in 1..((Len(accounts) + maxPerBatch - 1) \div maxPerBatch) |->
        SubSeq(accounts, (b - 1) * maxPerBatch + 1,
               Min(b * maxPerBatch, Len(accounts)))]

\* mutant: the token balance is not looked at again when the batch is built
createCloseInstructionNoBalance(account, info) ==
    IF account.isTokenAccount
    THEN IF ~info.exists THEN "none"
         ELSE IF info.owner # "token" \/ ~info.decodes THEN "throw"
         ELSE "close"
    ELSE IF account.owner = "system" THEN "transfer"
    ELSE "none"

\* ReclaimEngine.createCloseInstruction: "close" or "transfer" for an
\* instruction, "none" for null, "throw" when spl-token getAccount throws
\* something other than TokenAccountNotFoundError.
createCloseInstruction(account, info) ==
    IF account.isTokenAccount
    THEN IF ~info.exists THEN "none"
         ELSE IF info.owner # "token" \/ ~info.decodes THEN "throw"
         ELSE IF info.amount > 0 THEN "none"
         ELSE "close"
    ELSE IF account.owner = "system" THEN "transfer"
    ELSE "none"

NoSig == <<>>
Failure(pk, error) ==
    [pubkey |-> pk, success |-> FALSE, lamportsReclaimed |-> 0,
     txSignature |-> NoSig, error |-> error]
Success(pk, lamports, sig) ==
    [pubkey |-> pk, success |-> TRUE, lamportsReclaimed |-> lamports,
     txSignature |-> sig, error |-> NullStr]

RECURSIVE buildInstructions(_, _, _, _, _, _, _)
\* the first loop of processBatch: gate, then instruction, per account
buildInstructions(accounts, s, wl, ch, total, t, cfg) ==
    IF accounts = <<>> THEN [failed |-> <<>>, inTx |-> <<>>]
    ELSE
    LET account == Head(accounts)
        rest == buildInstructions(Tail(accounts), s, wl, ch, total, t, cfg)
        safetyCheck == checkAccount(account, s, wl, total, t, cfg)
        ix == createCloseInstruction(account, ch[account.pubkey])
    IN IF ~safetyCheck.allowed
       THEN [failed |-> <<Failure(account.pubkey, safetyCheck.reason)>> \o rest.failed,
             inTx |-> rest.inTx]
       ELSE IF ix = "none"
       THEN [failed |-> <<Failure(account.pubkey, "Could not create close instruction")>>
                          \o rest.failed,
             inTx |-> rest.inTx]
       ELSE IF ix = "throw"
       THEN [failed |-> <<Failure(account.pubkey, "getAccount error")>> \o rest.failed,
             inTx |-> rest.inTx]
       ELSE [failed |-> rest.failed, inTx |-> <<account>> \o rest.inTx]

\* The chain confirms a transaction only if every instruction in it is valid
\* when it executes: a close of an existing, empty token account whose close
\* authority is the signer.
InstructionValid(account, info) ==
    /\ createCloseInstruction(account, info) = "close"
    /\ OperatorIsAuthority(info)

TxValid(inTx, ch) ==
    \A i \in 1..Len(inTx) : InstructionValid(inTx[i], ch[inTx[i].pubkey])

Pubkeys(accounts) == [i \in 1..Len(accounts) |-> accounts[i].pubkey]
Lamports(accounts) == [i \in 1..Len(accounts) |-> accounts[i].lamports]

\* the error thrown by attempt a of sendAndConfirmTransaction
AttemptErrors ==
    <<"error of attempt 1", "error of attempt 2", "error of attempt 3">>

RECURSIVE Pow2(_)
Pow2(n) == IF n = 0 THEN 1 ELSE 2 * Pow2(n - 1)

\* mutant: the same wait after every failed attempt
executeWithRetryFlatDelay(inTx, txId, okAt) ==
    LET attempts == IF okAt = 0 THEN MAX_RETRIES ELSE okAt IN
    [success |-> okAt # 0,
     signature |-> IF okAt # 0 THEN <<txId, okAt>> ELSE NoSig,
     error |-> IF okAt # 0 THEN NullStr ELSE AttemptErrors[MAX_RETRIES],
     submissions |-> [a \in 1..attempts |->
                        [sig |-> <<txId, a>>, accounts |-> Pubkeys(inTx),
                         confirmed |-> (a = okAt),
                         waitAfter |-> IF a # okAt /\ a < MAX_RETRIES
                                       THEN RETRY_DELAY ELSE 0]]]

\* mutant: the error of the first attempt reported instead of the last
executeWithRetryFirstError(inTx, txId, okAt) ==
    LET attempts == IF okAt = 0 THEN MAX_RETRIES ELSE okAt IN
    [success |-> okAt # 0,
     signature |-> IF okAt # 0 THEN <<txId, okAt>> ELSE NoSig,
     error |-> IF okAt # 0 THEN NullStr ELSE AttemptErrors[1],
     submissions |-> [a \in 1..attempts |->
                        [sig |-> <<txId, a>>, accounts |-> Pubkeys(inTx),
                         confirmed |-> (a = okAt),
                         waitAfter |-> IF a # okAt /\ a < MAX_RETRIES
                                       THEN RETRY_DELAY * Pow2(a - 1) ELSE 0]]]

\* ReclaimEngine.executeWithRetry.  okAt is the attempt that confirms, 0 when
\* none does; every attempt made is one submission, the signature of attempt a
\* of the transaction txId is <<txId, a>>, and waitAfter is the delay slept
\* after a failed attempt (0 when the loop does not sleep).
executeWithRetry(inTx, txId, okAt) ==
    LET attempts == IF okAt = 0 THEN MAX_RETRIES ELSE okAt IN
    [success |-> okAt # 0,
     signature |-> IF okAt # 0 THEN <<txId, okAt>> ELSE NoSig,
     error |-> IF okAt # 0 THEN NullStr ELSE AttemptErrors[MAX_RETRIES],
     submissions |-> [a \in 1..attempts |->
                        [sig |-> <<txId, a>>, accounts |-> Pubkeys(inTx),
                         confirmed |-> (a = okAt),
                         waitAfter |-> IF a # okAt /\ a < MAX_RETRIES
                                       THEN RETRY_DELAY * Pow2(a - 1) ELSE 0]]]

\* mutant: only the first account of the transaction is committed
commitSuccessFirstOnly(db, inTx, sig, t, acc) ==
    IF inTx = <<>> THEN [db |-> db, successful |-> acc]
    ELSE
    LET a == Head(inTx) IN
    [db |-> [rows |-> updateAccountStatusOnly(db.rows, a.pubkey, "reclaimed", t),
             history |-> addReclaimHistory(db.history, a.pubkey, a.lamports,
                                           "success", NullStr, sig)],
     successful |-> Append(acc, Success(a.pubkey, a.lamports, sig))]

RECURSIVE commitSuccess(_, _, _, _, _)
\* the loop after a confirmed transaction: status, history row, per account
commitSuccess(db, inTx, sig, t, acc) ==
    IF inTx = <<>> THEN [db |-> db, successful |-> acc]
    ELSE
    LET a == Head(inTx) IN
    commitSuccess(
        [rows |-> updateAccountStatusOnly(db.rows, a.pubkey, "reclaimed", t),
         history |-> addReclaimHistory(db.history, a.pubkey, a.lamports,
                                       "success", NullStr, sig)],
        Tail(inTx), sig, t, Append(acc, Success(a.pubkey, a.lamports, sig)))

RECURSIVE commitFailure(_, _, _, _)
\* the loop after the retries ran out: a failed history row per account
commitFailure(h, inTx, error, acc) ==
    IF inTx = <<>> THEN [history |-> h, failed |-> acc]
    ELSE
    LET a == Head(inTx) IN
    commitFailure(addReclaimHistory(h, a.pubkey, 0, "failed", error, NoSig),
                  Tail(inTx), error, Append(acc, Failure(a.pubkey, error)))

\* mutant: the last account of the batch gets no would-reclaim result
DryRunResultsShort(inTx) ==
    [i \in 1..(Len(inTx) - 1) |-> Success(inTx[i].pubkey, inTx[i].lamports, NoSig)]

DryRunResults(inTx) ==
    [i \in 1..Len(inTx) |-> Success(inTx[i].pubkey, inTx[i].lamports, NoSig)]

\* mutant: the budget counter is advanced for the accounts of a dry run too
processBatchDryRunCounts(accounts, dryRun, s, h, wl, ch, total, txId, okAt, t, cfg) ==
    LET built == buildInstructions(accounts, s, wl, ch, total, t, cfg)
        inTx == built.inTx
        unchanged == [successful |-> <<>>, failed |-> built.failed,
                      totalLamportsReclaimed |-> 0, rows |-> s, history |-> h,
                      total |-> total, submissions |-> <<>>, closed |-> {},
                      inTx |-> inTx]
    IN
    IF inTx = <<>> THEN unchanged
    ELSE IF dryRun
    THEN [unchanged EXCEPT !.successful = DryRunResults(inTx),
                           !.totalLamportsReclaimed = SumSeq(Lamports(inTx)),
                           !.total = total + SumSeq(Lamports(inTx))]
    ELSE
    LET txResult == executeWithRetry(inTx, txId, okAt) IN
    IF txResult.success
    THEN LET c == commitSuccess([rows |-> s, history |-> h], inTx,
                                txResult.signature, t, <<>>)
         IN [unchanged EXCEPT !.successful = c.successful,
                              !.totalLamportsReclaimed = SumSeq(Lamports(inTx)),
                              !.rows = c.db.rows,
                              !.history = c.db.history,
                              !.total = total + SumSeq(Lamports(inTx)),
                              !.submissions = txResult.submissions,
                              !.closed = Range(Pubkeys(inTx))]
    ELSE LET c == commitFailure(h, inTx, txResult.error, built.failed)
         IN [unchanged EXCEPT !.failed = c.failed,
                              !.history = c.history,
                              !.submissions = txResult.submissions]

\* mutant: a batch without instructions is sent all the same
processBatchSubmitsEmpty(accounts, dryRun, s, h, wl, ch, total, txId, okAt, t, cfg) ==
    LET built == buildInstructions(accounts, s, wl, ch, total, t, cfg)
        inTx == built.inTx
        unchanged == [successful |-> <<>>, failed |-> built.failed,
                      totalLamportsReclaimed |-> 0, rows |-> s, history |-> h,
                      total |-> total, submissions |-> <<>>, closed |-> {},
                      inTx |-> inTx]
    IN
    IF dryRun
    THEN [unchanged EXCEPT !.successful = DryRunResults(inTx),
                           !.totalLamportsReclaimed = SumSeq(Lamports(inTx))]
    ELSE
    LET txResult == executeWithRetry(inTx, txId, okAt) IN
    IF txResult.success
    THEN LET c == commitSuccess([rows |-> s, history |-> h], inTx,
                                txResult.signature, t, <<>>)
         IN [unchanged EXCEPT !.successful = c.successful,
                              !.totalLamportsReclaimed = SumSeq(Lamports(inTx)),
                              !.rows = c.db.rows,
                              !.history = c.db.history,
                              !.total = total + SumSeq(Lamports(inTx)),
                              !.submissions = txResult.submissions,
                              !.closed = Range(Pubkeys(inTx))]
    ELSE LET c == commitFailure(h, inTx, txResult.error, built.failed)
         IN [unchanged EXCEPT !.failed = c.failed,
                              !.history = c.history,
                              !.submissions = txResult.submissions]

\* ReclaimEngine.processBatch as a function of what it reads; okAt as in
\* executeWithRetry.  Gives the BatchReclaimResult and every piece of state
\* the batch leaves behind.
processBatch(accounts, dryRun, s, h, wl, ch, total, txId, okAt, t, cfg) ==
    LET built == buildInstructions(accounts, s, wl, ch, total, t, cfg)
        inTx == built.inTx
        unchanged == [successful |-> <<>>, failed |-> built.failed,
                      totalLamportsReclaimed |-> 0, rows |-> s, history |-> h,
                      total |-> total, submissions |-> <<>>, closed |-> {},
                      inTx |-> inTx]
    IN
    IF inTx = <<>> THEN unchanged
    ELSE IF dryRun
    THEN [unchanged EXCEPT !.successful = DryRunResults(inTx),
                           !.totalLamportsReclaimed = SumSeq(Lamports(inTx))]
    ELSE
    LET txResult == executeWithRetry(inTx, txId, okAt) IN
    IF txResult.success
    THEN LET c == commitSuccess([rows |-> s, history |-> h], inTx,
                                txResult.signature, t, <<>>)
         IN [unchanged EXCEPT !.successful = c.successful,
                              !.totalLamportsReclaimed = SumSeq(Lamports(inTx)),
                              !.rows = c.db.rows,
                              !.history = c.db.history,
                              !.total = total + SumSeq(Lamports(inTx)),
                              !.submissions = txResult.submissions,
                              !.closed = Range(Pubkeys(inTx))]
    ELSE LET c == commitFailure(h, inTx, txResult.error, built.failed)
         IN [unchanged EXCEPT !.failed = c.failed,
                              !.history = c.history,
                              !.submissions = txResult.submissions]


\* ------------------------------------------------------------ state machine
EmptyStore == [k \in {} |-> ImportedRow]

IdleRun ==
    [phase |-> "idle", dryRun |-> FALSE, safe |-> <<>>, next |-> 0,
     successful |-> <<>>, failed |-> <<>>, totalLamportsReclaimed |-> 0,
     inTx |-> <<>>, submissions |-> <<>>, keypair |-> FALSE,
     network |-> "devnet", confirmed |-> FALSE, jobs |-> <<>>,
     max |-> <<>>]

Idle == run.phase = "idle"

Whitelists == [db |-> dbWhitelist, cfg |-> cfgWhitelist]

\* process environments: zone offset in ticks, MIN_IDLE_DAYS, MAX_RECLAIM_SOL_PER_RUN
Envs ==
    [tz : {-1, 0, 1}, minIdleDays : {0, 1}, maxReclaimSolPerRun : {1}]

NoGhost ==
    [runs |-> 0, reclaimedEver |-> {}, rescanned |-> {}, resubmitted |-> {},
     lost |-> {}]

Init ==
    /\ store = EmptyStore
    /\ rowOrder = <<>>
    /\ history = <<>>
    /\ dbWhitelist = {}
    /\ cfgWhitelist = {}
    /\ chain = [pk \in MainKeys |-> TokenOp(pk)]
    /\ now = 0
    /\ env \in Envs
    /\ walletReadable = TRUE
    /\ treasurySet = TRUE
    /\ totalReclaimedThisRun = 0
    /\ run = IdleRun
    /\ ghost = NoGhost

\* time passes
Tick ==
    /\ now < MaxTime
    /\ now' = now + 1
    /\ UNCHANGED <<store, rowOrder, history, dbWhitelist, cfgWhitelist, chain, env,
                   walletReadable, treasurySet, totalReclaimedThisRun, run,
                   ghost>>

\* the chain moves on: an account is closed, funded, re-created, re-assigned
ChainChange ==
    \E pk \in DOMAIN chain : \E c \in ChainStates(pk) :
        /\ c # chain[pk]
        /\ chain' = [chain EXCEPT ![pk] = c]
        /\ UNCHANGED <<store, rowOrder, history, dbWhitelist, cfgWhitelist, now, env,
                       walletReadable, treasurySet, totalReclaimedThisRun, run,
                       ghost>>

\* the wallet file appears or disappears between two commands
WalletChange ==
    /\ Idle
    /\ walletReadable' = ~walletReadable
    /\ UNCHANGED <<store, rowOrder, history, dbWhitelist, cfgWhitelist, chain, now,
                   env, treasurySet, totalReclaimedThisRun, run, ghost>>

ImportFiles == {<<1>>}

\* `import <file>`: KoraParser.importFromFile
importFromFile ==
    /\ Idle
    /\ \E pks \in ImportFiles :
          LET db == addAccountsBatch([rows |-> store, order |-> rowOrder],
                                     pks, ImportedRow)
          IN /\ store' = db.rows
             /\ rowOrder' = db.order
    /\ UNCHANGED <<history, dbWhitelist, cfgWhitelist, chain, now, env,
                   walletReadable, treasurySet, totalReclaimedThisRun, run,
                   ghost>>

\* `whitelist add <pubkey>`: SafetyManager.addToWhitelist
addToWhitelist ==
    /\ Idle
    /\ \E pk \in DOMAIN chain :
          /\ pk \notin dbWhitelist \cap cfgWhitelist
          /\ dbWhitelist' = dbWhitelist \cup {pk}
          /\ cfgWhitelist' = cfgWhitelist \cup {pk}
    /\ UNCHANGED <<store, rowOrder, history, chain, now, env, walletReadable,
                   treasurySet, totalReclaimedThisRun, run, ghost>>

\* `whitelist remove <pubkey>`: SafetyManager.removeFromWhitelist
removeFromWhitelist ==
    /\ Idle
    /\ \E pk \in dbWhitelist \cup cfgWhitelist :
          /\ dbWhitelist' = dbWhitelist \ {pk}
          /\ cfgWhitelist' = cfgWhitelist \ {pk}
    /\ UNCHANGED <<store, rowOrder, history, chain, now, env, walletReadable,
                   treasurySet, totalReclaimedThisRun, run, ghost>>

\* the outcomes of the RPC fetches of one scan, every store write succeeding
FetchOutcomes ==
    {[bulkOk |-> TRUE, fetchFail |-> {}, badWrite |-> {}]}
    \cup {[bulkOk |-> FALSE, fetchFail |-> F, badWrite |-> {}] :
              F \in SUBSET (DOMAIN store)}

ScanGhost(scanSet) ==
    [ghost EXCEPT !.rescanned = @ \cup (Range(scanSet) \cap ghost.reclaimedEver)]

\* `scan`: scanner.scanAccounts, then the gate's filter for the report
ScanCmd ==
    /\ Idle
    /\ \E f \in FetchOutcomes :
          LET r == scanAccounts(store, rowOrder, Whitelists, chain, f.bulkOk,
                                f.fetchFail, walletReadable, now, env, f.badWrite)
          IN /\ store' = r.db
             /\ ghost' = ScanGhost(r.result.scanSet)
    /\ UNCHANGED <<rowOrder, history, dbWhitelist, cfgWhitelist, chain, now, env,
                   walletReadable, treasurySet, totalReclaimedThisRun, run>>

Networks == {"devnet", "mainnet-beta"}

\* the --max <sol> option of reclaim: not given, or an amount, counted in
\* units (here half a SOL)
NoMax == <<>>
MaxOptions == {NoMax, <<1>>}

\* SafetyManager.requiresConfirmation.  requireConfirmation is fixed in the
\* constructor, when the module is loaded, from the NETWORK variable.
requiresConfirmation(netEnv, dryRun) == netEnv = "mainnet-beta" /\ ~dryRun

\* the reclaim action from resetRunState on: scan, filter; reclaimAccounts
\* starts when the safe list is not empty.  launches is the number of
\* command launches this step counts.
StartRun(dryRun, network, confirmed, max, f, launches) ==
    LET r == scanAccounts(store, rowOrder, Whitelists, chain, f.bulkOk,
                          f.fetchFail, walletReadable, now, env, f.badWrite)
        safe == filterSafeAccounts(r.result.reclaimable, r.db, Whitelists,
                                   0, now, env)
    IN /\ store' = r.db
       /\ totalReclaimedThisRun' = 0
       /\ ghost' = [ScanGhost(r.result.scanSet) EXCEPT !.runs = @ + launches]
       /\ run' = IF safe = <<>> THEN IdleRun
                 ELSE [IdleRun EXCEPT !.phase = "reclaiming",
                                      !.dryRun = dryRun,
                                      !.safe = safe,
                                      !.next = 1,
                                      !.keypair = walletReadable,
                                      !.network = network,
                                      !.confirmed = confirmed,
                                      !.max = max]
       /\ UNCHANGED <<rowOrder, history, dbWhitelist, cfgWhitelist, chain, now,
                      env, walletReadable, treasurySet>>

\* `reclaim -y [-d]` (no --max) with NETWORK unset (devnet, nothing to confirm), as one
\* step: validate, resetRunState, scan, filter
ReclaimCmd ==
    /\ Idle
    /\ ghost.runs < MaxRuns
    /\ treasurySet
    /\ \E dryRun \in BOOLEAN : \E f \in FetchOutcomes :
          StartRun(dryRun, "devnet", TRUE, NoMax, f, 1)

\* one turn of the batch loop of reclaimAccounts: processBatch, the results
\* pushed, the budget looked at
BatchStep ==
    /\ run.phase = "reclaiming"
    /\ LET batches == createBatches(run.safe, MAX_INSTRUCTIONS)
           batch == batches[run.next]
           last == run.next = Len(batches)
       IN
       IF ~(run.keypair \/ walletReadable)
       THEN \* getOperatorKeypair throws: the catch marks the whole batch failed
            /\ run' = [run EXCEPT
                  !.failed = @ \o [i \in 1..Len(batch) |->
                                     Failure(batch[i].pubkey, "Operator wallet not found")],
                  !.inTx = <<>>,
                  !.submissions = <<>>,
                  !.next = @ + 1,
                  !.phase = IF last \/ getRemainingBudget(totalReclaimedThisRun, env) <= 0
                            THEN "done" ELSE "reclaiming"]
            /\ UNCHANGED <<store, history, chain, totalReclaimedThisRun, ghost>>
       ELSE \E okAt \in 0..MAX_RETRIES :
            LET r == processBatch(batch, run.dryRun, store, history, Whitelists,
                                  chain, totalReclaimedThisRun,
                                  <<ghost.runs, run.next>>, okAt, now, env)
            IN /\ okAt # 0 => TxValid(r.inTx, chain)
               /\ store' = r.rows
               /\ history' = r.history
               /\ totalReclaimedThisRun' = r.total
               /\ chain' = [pk \in DOMAIN chain |->
                              IF pk \in r.closed THEN Absent ELSE chain[pk]]
               /\ ghost' = [ghost EXCEPT
                     !.reclaimedEver = @ \cup {pk \in DOMAIN r.rows :
                                                 r.rows[pk].status = "reclaimed"},
                     !.resubmitted = @ \cup
                        {pk \in ghost.reclaimedEver :
                            \E i \in 1..Len(r.submissions) :
                                pk \in Range(r.submissions[i].accounts)}]
               /\ run' = [run EXCEPT
                     !.successful = @ \o r.successful,
                     !.failed = @ \o r.failed,
                     !.totalLamportsReclaimed = @ + r.totalLamportsReclaimed,
                     !.inTx = r.inTx,
                     !.submissions = r.submissions,
                     !.keypair = TRUE,
                     !.next = @ + 1,
                     !.phase = IF last \/ getRemainingBudget(r.total, env) <= 0
                               THEN "done" ELSE "reclaiming"]
    /\ UNCHANGED <<rowOrder, dbWhitelist, cfgWhitelist, now, env, walletReadable,
                   treasurySet>>

\* reclaimAccounts has returned: the summary is printed, the process ends
Exit ==
    /\ run.phase = "done"
    /\ run' = IdleRun
    /\ UNCHANGED <<store, rowOrder, history, dbWhitelist, cfgWhitelist, chain, now,
                   env, walletReadable, treasurySet, totalReclaimedThisRun, ghost>>

Next ==
    \/ Tick
    \/ ChainChange
    \/ WalletChange
    \/ importFromFile
    \/ addToWhitelist
    \/ removeFromWhitelist
    \/ ScanCmd
    \/ ReclaimCmd
    \/ BatchStep
    \/ Exit

Spec == Init /\ [][Next]_vars


\* ------------------------------------------------- the executor on its own
\* reclaimAccounts as a function of the approved list and of the state it
\* reads.  The list is 1..n as a scan at tick 0 approved it; one account of
\* it (the first or the last) may have drifted since, or be handed over
\* without authority (as reclaimSingle does); or every account of the first
\* batch holds tokens again, or is gone.
Drifts ==
    {"none", "noAuthority", "whitelistedDb", "whitelistedCfg", "funded", "gone",
     "authorityMoved", "clockCleared", "batchFunded", "batchGone"}

\* the drifts that hit every account of the first batch
BatchDrifts == {"batchFunded", "batchGone"}

ApprovedRow(pk) ==
    [status |-> "active", lamports |-> RentOf(pk), lastChecked |-> At(0),
     reclaimableSince |-> At(0), closeAuthority |-> OperatorKey,
     operatorCanClose |-> TRUE]

ApprovedStatus(pk) ==
    [NewStatus(pk, TokenOp(pk)) EXCEPT !.isTokenAccount = TRUE,
                                       !.isReclaimable = TRUE,
                                       !.closeAuthority = OperatorKey,
                                       !.operatorCanClose = TRUE]

ExecEnvs == [tz : {0}, minIdleDays : {0}, maxReclaimSolPerRun : {1, 8}]

ExecInit ==
    \E n \in 1..MaxApproved : \E k \in {1, n} : \E drift \in Drifts :
    \E dryRun \in BOOLEAN :
        /\ drift \in {"none"} \cup BatchDrifts => k = 1
        /\ store = [pk \in 1..n |->
                      IF pk = k /\ drift = "noAuthority"
                      THEN [ApprovedRow(pk) EXCEPT !.operatorCanClose = FALSE,
                                                   !.closeAuthority = OtherKey,
                                                   !.reclaimableSince = NoTime]
                      ELSE IF pk = k /\ drift = "clockCleared"
                      THEN [ApprovedRow(pk) EXCEPT !.reclaimableSince = NoTime]
                      ELSE ApprovedRow(pk)]
        /\ rowOrder = [pk \in 1..n |-> pk]
        /\ history = <<>>
        /\ dbWhitelist = IF drift = "whitelistedDb" THEN {k} ELSE {}
        /\ cfgWhitelist = IF drift = "whitelistedCfg" THEN {k} ELSE {}
        /\ chain = [pk \in 1..n |->
                      IF drift \in BatchDrifts
                      THEN IF pk > MAX_INSTRUCTIONS THEN TokenOp(pk)
                           ELSE IF drift = "batchFunded" THEN TokenOpFunded(pk)
                           ELSE Absent
                      ELSE IF pk # k THEN TokenOp(pk)
                      ELSE IF drift = "funded" THEN TokenOpFunded(pk)
                      ELSE IF drift = "gone" THEN Absent
                      ELSE IF drift \in {"authorityMoved", "noAuthority"}
                           THEN TokenOther(pk)
                      ELSE TokenOp(pk)]
        /\ now = 0
        /\ env \in ExecEnvs
        /\ walletReadable = TRUE
        /\ treasurySet = TRUE
        /\ totalReclaimedThisRun = 0
        /\ run = [IdleRun EXCEPT
                    !.phase = "reclaiming",
                    !.dryRun = dryRun,
                    !.safe = [pk \in 1..n |->
                                IF pk = k /\ drift = "noAuthority"
                                THEN [ApprovedStatus(pk) EXCEPT
                                        !.operatorCanClose = FALSE,
                                        !.isReclaimable = FALSE,
                                        !.closeAuthority = OtherKey]
                                ELSE ApprovedStatus(pk)],
                    !.next = 1,
                    !.keypair = TRUE]
        /\ ghost = [NoGhost EXCEPT !.runs = 1]

ExecNext ==
    \/ BatchStep
    \/ Exit

SpecExec == ExecInit /\ [][ExecNext]_vars


\* ------------------------------------------- the reclaim command line
\* The reclaim command launched in every way, on a store in which account 1
\* is tracked and was stamped reclaimable by a scan at tick 0.
\* `reclaim [-n <network>] [-d] [-y] [--max <sol>]` up to the prompt: the preAction hook
\* sets the network to the -n option (netOpt, "devnet" when not given);
\* validate; requiresConfirmation.
ReclaimLaunch ==
    /\ Idle
    /\ ghost.runs < MaxRuns
    /\ treasurySet
    /\ \E netEnv, netOpt \in Networks : \E yes, dryRun \in BOOLEAN :
       \E max \in MaxOptions :
          run' = [IdleRun EXCEPT
                    !.phase = IF requiresConfirmation(netEnv, dryRun) /\ ~yes
                              THEN "prompt" ELSE "scan",
                    !.dryRun = dryRun,
                    !.network = netOpt,
                    !.confirmed = yes,
                    !.max = max]
    /\ ghost' = [ghost EXCEPT !.runs = @ + 1]
    /\ UNCHANGED <<store, rowOrder, history, dbWhitelist, cfgWhitelist, chain, now,
                   env, walletReadable, treasurySet, totalReclaimedThisRun>>

\* confirmMainnetOperation: the user answers; "no" ends the process
ConfirmAnswer ==
    /\ run.phase = "prompt"
    /\ \E answer \in BOOLEAN :
          run' = IF answer
                 THEN [run EXCEPT !.phase = "scan", !.confirmed = TRUE]
                 ELSE IdleRun
    /\ UNCHANGED <<store, rowOrder, history, dbWhitelist, cfgWhitelist, chain, now,
                   env, walletReadable, treasurySet, totalReclaimedThisRun, ghost>>

\* the rest of the reclaim action
ReclaimScan ==
    /\ run.phase = "scan"
    /\ \E f \in FetchOutcomes :
          StartRun(run.dryRun, run.network, run.confirmed, run.max, f, 0)

CliInit ==
    /\ store = [pk \in MainKeys |-> ApprovedRow(pk)]
    /\ rowOrder = <<1>>
    /\ history = <<>>
    /\ dbWhitelist = {}
    /\ cfgWhitelist = {}
    /\ chain = [pk \in MainKeys |-> TokenOp(pk)]
    /\ now = 0
    /\ env \in ExecEnvs
    /\ walletReadable = TRUE
    /\ treasurySet = TRUE
    /\ totalReclaimedThisRun = 0
    /\ run = IdleRun
    /\ ghost = NoGhost

CliNext ==
    \/ ReclaimLaunch
    \/ ConfirmAnswer
    \/ ReclaimScan
    \/ BatchStep
    \/ Exit
    \/ ChainChange

SpecCli == CliInit /\ [][CliNext]_vars

\* --------------------------------------------------- the end-to-end run
\* Accounts A = 1, B = 2, C = 3 were imported; on-chain A and C are empty
\* token accounts with the operator as close authority, B has another close
\* authority.  MIN_IDLE_DAYS = 0.  Then `reclaim` is launched, dry or not.
E2EKeys == {1, 2, 3}

E2EEnvs == [tz : {-1, 0, 1}, minIdleDays : {0}, maxReclaimSolPerRun : {1, 8}]

E2EInit ==
    /\ store = [pk \in E2EKeys |-> ImportedRow]
    /\ rowOrder = <<1, 2, 3>>
    /\ history = <<>>
    /\ dbWhitelist = {}
    /\ cfgWhitelist = {}
    /\ chain = [pk \in E2EKeys |-> IF pk = 2 THEN TokenOther(pk) ELSE TokenOp(pk)]
    /\ now = 0
    /\ env \in E2EEnvs
    /\ walletReadable = TRUE
    /\ treasurySet = TRUE
    /\ totalReclaimedThisRun = 0
    /\ run = IdleRun
    /\ ghost = NoGhost

E2ENext ==
    \/ ReclaimCmd
    \/ BatchStep
    \/ Exit

SpecE2E == E2EInit /\ [][E2ENext]_vars

\* ------------------------------------------------------- the cron command
\* `cron` (without -d): node-cron calls the scheduled callback at every
\* instant of the schedule; the callback is async and nothing in it looks at
\* whether an earlier call has returned.  run.jobs holds the calls made so
\* far, each at its own position: "scan" (awaiting the fetch of
\* scanAccounts), "reclaiming" (between two batches), "inflight" (awaiting
\* sendAndConfirmTransaction), "done".  The steps between two network waits
\* are taken as one.
NewJob == [phase |-> "scan", safe |-> <<>>, next |-> 0, inTx |-> <<>>]

JobsIn(phase) == {j \in 1..Len(run.jobs) : run.jobs[j].phase = phase}

\* the position of a job after its batch number b
AfterBatch(job, total) ==
    [job EXCEPT !.next = @ + 1,
                !.phase = IF \/ job.next = Len(createBatches(job.safe, MAX_INSTRUCTIONS))
                             \/ getRemainingBudget(total, env) <= 0
                          THEN "done" ELSE "reclaiming"]

\* the schedule fires: resetRunState, then scanAccounts is entered
CronFire ==
    /\ run.phase = "cron"
    /\ Len(run.jobs) < MaxJobs
    /\ totalReclaimedThisRun' = 0
    /\ run' = [run EXCEPT !.jobs = Append(@, NewJob)]
    /\ UNCHANGED <<store, rowOrder, history, dbWhitelist, cfgWhitelist, chain, now,
                   env, walletReadable, treasurySet, ghost>>

\* the fetch of a job's scan returns: the scan's updates, then the filter
CronScan ==
    \E j \in JobsIn("scan") : \E f \in FetchOutcomes :
        LET r == scanAccounts(store, rowOrder, Whitelists, chain, f.bulkOk,
                              f.fetchFail, walletReadable, now, env, f.badWrite)
            safe == filterSafeAccounts(r.result.reclaimable, r.db, Whitelists,
                                       totalReclaimedThisRun, now, env)
        IN /\ store' = r.db
           /\ run' = [run EXCEPT !.jobs[j] =
                        IF safe = <<>> THEN [@ EXCEPT !.phase = "done"]
                        ELSE [@ EXCEPT !.phase = "reclaiming", !.safe = safe,
                                       !.next = 1]]
           /\ UNCHANGED <<rowOrder, history, dbWhitelist, cfgWhitelist, chain, now,
                          env, walletReadable, treasurySet, totalReclaimedThisRun,
                          ghost>>

\* processBatch of a job up to the submission of its transaction
CronSubmit ==
    \E j \in JobsIn("reclaiming") :
        LET job == run.jobs[j]
            batch == createBatches(job.safe, MAX_INSTRUCTIONS)[job.next]
            built == buildInstructions(batch, store, Whitelists, chain,
                                       totalReclaimedThisRun, now, env)
        IN /\ run' = [run EXCEPT !.jobs[j] =
                        IF built.inTx = <<>>
                        THEN AfterBatch(job, totalReclaimedThisRun)
                        ELSE [job EXCEPT !.phase = "inflight", !.inTx = built.inTx]]
           /\ UNCHANGED <<store, rowOrder, history, dbWhitelist, cfgWhitelist, chain,
                          now, env, walletReadable, treasurySet,
                          totalReclaimedThisRun, ghost>>

\* executeWithRetry of a job returns: the rest of processBatch
CronConfirm ==
    \E j \in JobsIn("inflight") : \E okAt \in 0..MAX_RETRIES :
        LET job == run.jobs[j]
            txResult == executeWithRetry(job.inTx, <<j, job.next>>, okAt)
            c == commitSuccess([rows |-> store, history |-> history], job.inTx,
                               txResult.signature, now, <<>>)
            total == IF txResult.success
                     THEN totalReclaimedThisRun + SumSeq(Lamports(job.inTx))
                     ELSE totalReclaimedThisRun
        IN /\ okAt # 0 => TxValid(job.inTx, chain)
           /\ store' = IF txResult.success THEN c.db.rows ELSE store
           /\ history' = IF txResult.success THEN c.db.history
                         ELSE commitFailure(history, job.inTx, txResult.error,
                                            <<>>).history
           /\ totalReclaimedThisRun' = total
           /\ chain' = [pk \in DOMAIN chain |->
                          IF txResult.success /\ pk \in Range(Pubkeys(job.inTx))
                          THEN Absent ELSE chain[pk]]
           /\ run' = [run EXCEPT !.jobs[j] =
                        [AfterBatch(job, total) EXCEPT !.inTx = <<>>]]
           /\ UNCHANGED <<rowOrder, dbWhitelist, cfgWhitelist, now, env,
                          walletReadable, treasurySet, ghost>>

CronInit ==
    /\ store = [pk \in MainKeys |-> ApprovedRow(pk)]
    /\ rowOrder = <<1>>
    /\ history = <<>>
    /\ dbWhitelist = {}
    /\ cfgWhitelist = {}
    /\ chain = [pk \in MainKeys |-> TokenOp(pk)]
    /\ now = 0
    /\ env \in ExecEnvs
    /\ walletReadable = TRUE
    /\ treasurySet = TRUE
    /\ totalReclaimedThisRun = 0
    /\ run = [IdleRun EXCEPT !.phase = "cron"]
    /\ ghost = NoGhost

CronNext ==
    \/ CronFire
    \/ CronScan
    \/ CronSubmit
    \/ CronConfirm
    \/ ChainChange

SpecCron == CronInit /\ [][CronNext]_vars

\* --------------------------------------------------- the scanner on its own
\* scanAccounts over every kind of account the chain can show.  Two accounts
\* are tracked, each either just imported or already found reclaimable by a
\* scan at tick 0; what the chain shows for them now is drawn freely.
ScanKeys == {1, 2}

SystemOwned(pk) == ChainInfo(pk, "system", FALSE, FALSE, 0, NullStr, NullStr, 0)
ProgramOwned(pk) == ChainInfo(pk, "program", FALSE, FALSE, 0, NullStr, NullStr, 0)
ExecutableProgram(pk) == ChainInfo(pk, "loader", TRUE, FALSE, 0, NullStr, NullStr, 0)
\* owned by the token program, data that AccountLayout.decode rejects
TokenUndecodable(pk) == ChainInfo(pk, "token", FALSE, FALSE, 0, NullStr, NullStr, 0)
\* no close authority set, the operator is the token owner
TokenOwnerOp(pk) == ChainInfo(pk, "token", FALSE, TRUE, 0, OtherKey, OperatorKey, 0)
\* no close authority set (the bytes of the field hold the operator key),
\* another token owner
TokenUnset(pk) == ChainInfo(pk, "token", FALSE, TRUE, 0, OperatorKey, OtherKey, 0)
\* close authority set to another key, the operator is the token owner
TokenAuthGiven(pk) == ChainInfo(pk, "token", FALSE, TRUE, 1, OtherKey, OperatorKey, 0)

AllChainStates(pk) ==
    ChainStates(pk) \cup
    {SystemOwned(pk), ProgramOwned(pk), ExecutableProgram(pk), TokenUndecodable(pk),
     TokenOwnerOp(pk), TokenUnset(pk), TokenAuthGiven(pk)}

ScanEnvs == [tz : {0}, minIdleDays : {0, 1}, maxReclaimSolPerRun : {1}]

ScanInit ==
    /\ store \in [ScanKeys -> {ImportedRow, ApprovedRow(1), ApprovedRow(2)}]
    /\ \A pk \in ScanKeys : store[pk] \in {ImportedRow, ApprovedRow(pk)}
    /\ rowOrder = <<1, 2>>
    /\ history = <<>>
    /\ dbWhitelist \in {{}, {2}}
    /\ cfgWhitelist = {}
    /\ chain \in [ScanKeys -> UNION {AllChainStates(pk) : pk \in ScanKeys}]
    /\ chain[1] \in {TokenOp(1), SystemOwned(1), Absent}
    /\ chain[2] \in AllChainStates(2)
    /\ now = 0
    /\ env \in ScanEnvs
    /\ walletReadable \in BOOLEAN
    /\ treasurySet = TRUE
    /\ totalReclaimedThisRun = 0
    /\ run = IdleRun
    /\ ghost = NoGhost

ScanNext ==
    \/ Tick
    \/ ScanCmd

SpecScan == ScanInit /\ [][ScanNext]_vars

\* ------------------------------------------------- a run that is cut short
\* A reclaim run is under way on one or two accounts that a scan at tick 0
\* approved; the process may stop between the confirmation of a batch's
\* transaction and the end of the loop that records it.  Afterwards the
\* operator runs `scan` and `reclaim` again.  ghost.lost holds the accounts
\* the chain closed and the store never heard of.
CrashKeys == {1, 2}

\* processBatch stops after sendAndConfirmTransaction confirmed and the
\* first k accounts of the transaction were recorded
CrashAfterConfirm ==
    /\ run.phase = "reclaiming"
    /\ ~run.dryRun
    /\ run.keypair \/ walletReadable
    /\ LET batch == createBatches(run.safe, MAX_INSTRUCTIONS)[run.next]
           inTx == buildInstructions(batch, store, Whitelists, chain,
                                     totalReclaimedThisRun, now, env).inTx
       IN /\ inTx # <<>>
          /\ TxValid(inTx, chain)
          /\ \E k \in 0..(Len(inTx) - 1) :
                LET c == commitSuccess([rows |-> store, history |-> history],
                                       SubSeq(inTx, 1, k),
                                       <<<<ghost.runs, run.next>>, 1>>, now, <<>>)
                IN /\ store' = c.db.rows
                   /\ history' = c.db.history
                   /\ ghost' = [ghost EXCEPT
                         !.lost = @ \cup Range(Pubkeys(SubSeq(inTx, k + 1, Len(inTx)))),
                         !.reclaimedEver = @ \cup Range(Pubkeys(SubSeq(inTx, 1, k)))]
          /\ chain' = [pk \in DOMAIN chain |->
                         IF pk \in Range(Pubkeys(inTx)) THEN Absent ELSE chain[pk]]
    /\ totalReclaimedThisRun' = 0
    /\ run' = IdleRun
    /\ UNCHANGED <<rowOrder, dbWhitelist, cfgWhitelist, now, env, walletReadable,
                   treasurySet>>

CrashInit ==
    \E n \in CrashKeys :
        /\ store = [pk \in 1..n |-> ApprovedRow(pk)]
        /\ rowOrder = [pk \in 1..n |-> pk]
        /\ history = <<>>
        /\ dbWhitelist = {}
        /\ cfgWhitelist = {}
        /\ chain = [pk \in 1..n |-> TokenOp(pk)]
        /\ now = 0
        /\ env \in ExecEnvs
        /\ walletReadable = TRUE
        /\ treasurySet = TRUE
        /\ totalReclaimedThisRun = 0
        /\ run = [IdleRun EXCEPT !.phase = "reclaiming",
                                 !.safe = [pk \in 1..n |-> ApprovedStatus(pk)],
                                 !.next = 1,
                                 !.keypair = TRUE,
                                 !.confirmed = TRUE]
        /\ ghost = NoGhost

CrashNext ==
    \/ BatchStep
    \/ CrashAfterConfirm
    \/ Exit
    \/ ScanCmd
    \/ ReclaimCmd

SpecCrash == CrashInit /\ [][CrashNext]_vars

\* ------------------------------------------------------------- properties
CapLamports == env.maxReclaimSolPerRun * LamportsPerSol

\* the scan a command would run in this state, with the given fetch outcome
ScanNow(s, f) ==
    scanAccounts(s, rowOrder, Whitelists, chain, f.bulkOk, f.fetchFail,
                 walletReadable, now, env, f.badWrite)

FetchedAll == [bulkOk |-> TRUE, fetchFail |-> {}, badWrite |-> {}]

\* how many results of the list are about pk
Reported(results, pk) ==
    Cardinality({i \in 1..Len(results) : results[i].pubkey = pk})

\* C1: an account whose operatorCanClose is false or unset is denied by
\* checkAccount whatever its other fields, the whitelist, the idle clock and
\* the budget are, and no transaction built by processBatch holds an
\* instruction for such an account.
C1_NoAuthorityNeverReclaimed ==
    /\ \A i \in 1..Len(run.safe) : \A x, e \in BOOLEAN :
       \A total \in {0, totalReclaimedThisRun} :
          ~checkAccount([run.safe[i] EXCEPT !.operatorCanClose = FALSE,
                                            !.exists = x, !.executable = e],
                        store, Whitelists, total, now, env).allowed
    /\ \A i \in 1..Len(run.inTx) : run.inTx[i].operatorCanClose

\* a batch was built from a list holding an account without authority: the
\* account is reported with the gate's reason, the others are in the transaction
C1_Witness ==
    /\ run.next > 1
    /\ run.inTx # <<>>
    /\ \E i \in 1..Len(run.safe) :
          /\ ~run.safe[i].operatorCanClose
          /\ Failure(run.safe[i].pubkey, ReasonAuthority) \in Range(run.failed)

\* C2: in a run that is not a dry run the lamports reclaimed never add up to
\* more than the per-run cap.
C2_CapNeverExceeded ==
    ~run.dryRun =>
        /\ totalReclaimedThisRun <= CapLamports
        /\ run.totalLamportsReclaimed <= CapLamports

\* C3: a scan of an account that is token-owned with the operator as close
\* authority leaves a reclaimableSince that is already set as it is.
C3_FirstStampKept ==
    Idle =>
        \A f \in FetchOutcomes : \A pk \in DOMAIN store :
            (OperatorIsAuthority(chain[pk]) /\ store[pk].reclaimableSince # NoTime)
                => ScanNow(store, f).db[pk].reclaimableSince
                       = store[pk].reclaimableSince

\* C4: a scan that observes the account clears reclaimableSince when the
\* operator is no longer the close authority or the balance is not zero, in
\* no other case, and sets it only when it was null.
C4_ClearedExactlyWhen ==
    (Idle /\ walletReadable) =>
        LET db == ScanNow(store, FetchedAll).db IN
        \A pk \in Range(getActiveAccounts(store, rowOrder)) :
            LET lost == ~OperatorIsAuthority(chain[pk]) \/ chain[pk].amount > 0 IN
            (chain[pk].exists /\ ~isWhitelisted(Whitelists, pk)) =>
                /\ lost => db[pk].reclaimableSince = NoTime
                /\ (store[pk].reclaimableSince # NoTime
                      /\ db[pk].reclaimableSince = NoTime) => lost
                /\ db[pk].reclaimableSince # NoTime =>
                      \/ store[pk].reclaimableSince = NoTime
                      \/ db[pk].reclaimableSince = store[pk].reclaimableSince

\* C5: two stores that differ only in lastChecked get the same scan
\* classification, the same reclaimableSince and the same gate decisions
\* (looked at in a process whose zone is UTC).
C5_LastCheckedIrrelevant ==
    (Idle /\ env.tz = 0) =>
        \A pk \in DOMAIN store : \A lc \in {NoTime} \cup {At(t) : t \in 0..now} :
            LET r1 == ScanNow(store, FetchedAll)
                r2 == ScanNow([store EXCEPT ![pk].lastChecked = lc], FetchedAll)
            IN /\ Pubkeys(r1.result.reclaimable) = Pubkeys(r2.result.reclaimable)
               /\ r1.db[pk].reclaimableSince = r2.db[pk].reclaimableSince
               /\ Pubkeys(filterSafeAccounts(r1.result.reclaimable, r1.db,
                                             Whitelists, 0, now, env))
                    = Pubkeys(filterSafeAccounts(r2.result.reclaimable, r2.db,
                                                 Whitelists, 0, now, env))

\* C6: the idle check passes exactly when reclaimableSince is recorded and
\* at least minIdleDays old; a null or missing reclaimableSince is denied.
C6_IdleExactly ==
    \A pk \in DOMAIN chain :
        checkIdleDuration(store, pk, now, env).allowed
            <=> /\ Tracked(store, pk)
                /\ store[pk].reclaimableSince # NoTime
                /\ now - TimeOf(store[pk].reclaimableSince)
                       >= env.minIdleDays * TicksPerDay

\* C7: when reclaimAccounts returns, every account it was given is in exactly
\* one of the successful and failed lists, with a reason when it failed.
C7_EveryAccountReported ==
    run.phase = "done" =>
        \A i \in 1..Len(run.safe) :
            LET pk == run.safe[i].pubkey IN
            /\ Reported(run.successful, pk) + Reported(run.failed, pk) = 1
            /\ \A j \in 1..Len(run.failed) :
                  run.failed[j].pubkey = pk => run.failed[j].error # NullStr

\* C8: an account the gate denies because of the per-run budget is not in
\* the failed list.
C8_BudgetDeniedNotFailed ==
    \A i \in 1..Len(run.failed) : run.failed[i].error # ReasonLimit

\* C9: an account that became reclaimed is never again in a scan set nor in
\* a submitted transaction.
C9_ReclaimedNeverAgain ==
    /\ ghost.rescanned = {}
    /\ ghost.resubmitted = {}

\* C10: no step changes the status of a closed account back to active.
C10_ClosedStaysClosed ==
    [][\A pk \in DOMAIN store :
          store[pk].status = "closed" =>
              (pk \in DOMAIN store' /\ store'[pk].status # "active")]_vars

\* C11: upserting a public key that is already tracked keeps exactly one
\* record for it, gives the same store when applied twice as when applied
\* once, and leaves a recorded reclaimableSince of an account that is still
\* operator-closable as it is.
C11_UpsertKeepsIdleClock ==
    Idle =>
        \A pks \in ImportFiles :
            LET before == [rows |-> store, order |-> rowOrder]
                once == addAccountsBatch(before, pks, ImportedRow)
                twice == addAccountsBatch(once, pks, ImportedRow)
            IN \A pk \in Range(pks) \cap DOMAIN store :
                  /\ Cardinality({i \in 1..Len(once.order) : once.order[i] = pk}) = 1
                  /\ twice = once
                  /\ (/\ store[pk].reclaimableSince # NoTime
                      /\ store[pk].operatorCanClose
                      /\ OperatorIsAuthority(chain[pk])
                      /\ chain[pk].amount = 0)
                        => once.rows[pk].reclaimableSince
                               = store[pk].reclaimableSince

\* C12: executeWithRetry submits the transaction of a batch at most
\* MAX_RETRIES times, every time with all the accounts of the batch; it
\* stops at the first confirmed attempt and the results carry that attempt's
\* signature; it sleeps RETRY_DELAY * 2^(a-1) after a failed attempt a that
\* is not the last allowed one, and neither sleeps nor submits again after
\* the last.
C12_RetrySchedule ==
    LET s == run.submissions IN
    /\ Len(s) <= MAX_RETRIES
    /\ \A a \in 1..Len(s) :
          /\ s[a].accounts = Pubkeys(run.inTx)
          /\ s[a].confirmed => a = Len(s)
          /\ s[a].waitAfter = IF a < Len(s) THEN RETRY_DELAY * Pow2(a - 1) ELSE 0
    /\ s # <<>> =>
          IF s[Len(s)].confirmed
          THEN \A i \in 1..Len(run.inTx) :
                  Success(run.inTx[i].pubkey, run.inTx[i].lamports, s[Len(s)].sig)
                      \in Range(run.successful)
          ELSE Len(s) = MAX_RETRIES

\* fail, fail, succeed: three submissions, waits of 1 s and 2 s, the third
\* attempt's signature in the results
C12_Witness ==
    LET s == run.submissions IN
    /\ Len(s) = 3
    /\ s[3].confirmed
    /\ s[1].waitAfter = 1000 /\ s[2].waitAfter = 2000 /\ s[3].waitAfter = 0
    /\ \E i \in 1..Len(run.successful) : run.successful[i].txSignature = s[3].sig

\* C13: when every attempt of a batch's transaction fails, each account of
\* the transaction is reported failed with the last attempt's error and is
\* not reported successful, no row of the store changes (status stays
\* active, reclaimableSince stays), and the run's budget counter stays.
C13_FailedBatchLeavesStore ==
    [][LET s == run'.submissions IN
       (run.phase = "reclaiming" /\ run'.next = run.next + 1
          /\ s # <<>> /\ ~s[Len(s)].confirmed)
       => /\ \A i \in 1..Len(run'.inTx) :
                LET pk == run'.inTx[i].pubkey IN
                /\ Failure(pk, AttemptErrors[MAX_RETRIES]) \in Range(run'.failed)
                /\ Reported(run'.successful, pk) = 0
                /\ store'[pk].status = "active"
                /\ store'[pk].reclaimableSince = store[pk].reclaimableSince
          /\ store' = store
          /\ totalReclaimedThisRun' = totalReclaimedThisRun]_vars

\* a batch whose three attempts all failed: its accounts are in the failed
\* list and still active
C13_Witness ==
    LET s == run.submissions IN
    /\ Len(s) = MAX_RETRIES
    /\ \A a \in 1..Len(s) : ~s[a].confirmed
    /\ run.inTx # <<>>
    /\ \A i \in 1..Len(run.inTx) :
          /\ store[run.inTx[i].pubkey].status = "active"
          /\ Reported(run.failed, run.inTx[i].pubkey) = 1

\* C14: when the transaction of a batch is confirmed, every account in it is
\* set to reclaimed, the history grows by exactly one success row per such
\* account, all with the confirmed signature, and the run's counter grows by
\* the sum of their lamports; and no account becomes reclaimed in a step
\* without a confirmed transaction that contains it.
C14_ConfirmedBatchCommitted ==
    [][LET s == run'.submissions
           tx == run'.inTx
           done == s # <<>> /\ s[Len(s)].confirmed
       IN
       /\ (run.phase = "reclaiming" /\ run'.next = run.next + 1 /\ done)
          => /\ \A i \in 1..Len(tx) : store'[tx[i].pubkey].status = "reclaimed"
             /\ Len(history') = Len(history) + Len(tx)
             /\ SubSeq(history', 1, Len(history)) = history
             /\ \A i \in 1..Len(tx) :
                   history'[Len(history) + i] =
                       [pubkey |-> tx[i].pubkey,
                        lamportsReclaimed |-> tx[i].lamports,
                        status |-> "success", reason |-> NullStr,
                        txSignature |-> s[Len(s)].sig]
             /\ totalReclaimedThisRun'
                   = totalReclaimedThisRun + SumSeq(Lamports(tx))
       /\ \A pk \in DOMAIN store :
             (store[pk].status # "reclaimed" /\ store'[pk].status = "reclaimed")
                => done /\ pk \in Range(s[Len(s)].accounts)]_vars

\* a confirmed transaction of at least two accounts, all of them reclaimed
C14_Witness ==
    LET s == run.submissions IN
    /\ s # <<>> /\ s[Len(s)].confirmed
    /\ Len(run.inTx) >= 2
    /\ \A i \in 1..Len(run.inTx) : store[run.inTx[i].pubkey].status = "reclaimed"
    /\ Len(history) >= 2

\* C15: a batch of a dry run submits nothing, closes nothing, appends no
\* history row, changes no row of the store and leaves the run's counter;
\* it reports a would-reclaim result, without signature, for exactly the
\* accounts that pass the gate and the build-time balance check, which are
\* the accounts a real run would put into the transaction in this state,
\* and reports the others failed as the real run would.
C15_DryRunChangesNothing ==
    [][(run.dryRun /\ run.phase = "reclaiming" /\ run'.next = run.next + 1)
       => LET batch == createBatches(run.safe, MAX_INSTRUCTIONS)[run.next]
              real == processBatch(batch, FALSE, store, history, Whitelists,
                                   chain, totalReclaimedThisRun,
                                   <<ghost.runs, run.next>>, 1, now, env)
          IN /\ store' = store
             /\ history' = history
             /\ chain' = chain
             /\ totalReclaimedThisRun' = totalReclaimedThisRun
             /\ run'.submissions = <<>>
             /\ run'.successful = run.successful \o
                   [i \in 1..Len(real.inTx) |->
                       Success(real.inTx[i].pubkey, real.inTx[i].lamports, NoSig)]
             /\ \A i \in 1..Len(real.inTx) :
                   /\ checkAccount(real.inTx[i], store, Whitelists,
                                   totalReclaimedThisRun, now, env).allowed
                   /\ chain[real.inTx[i].pubkey].amount = 0
             /\ Len(run'.failed) - Len(run.failed) = Len(batch) - Len(real.inTx)]_vars

\* a dry run processed a batch in which one account was reported
\* would-reclaim and another was turned down
C15_Witness ==
    /\ run.dryRun
    /\ run.next > 1
    /\ run.successful # <<>>
    /\ run.failed # <<>>
    /\ history = <<>>
    /\ \A pk \in DOMAIN store : store[pk].status = "active"

RECURSIVE Flatten(_)
\* the concatenation of a sequence of sequences
Flatten(qs) == IF qs = <<>> THEN <<>> ELSE Head(qs) \o Flatten(Tail(qs))

\* C16: createBatches splits a list of n accounts into ceil(n / 10)
\* consecutive batches of 1 to 10 accounts whose concatenation is the list
\* (23 accounts give 10, 10, 3); reclaimAccounts takes the batches in that
\* order, and a batch all of whose accounts yield an instruction is
\* submitted as one transaction holding exactly the accounts of the batch in
\* their order.
C16_BatchesPartition ==
    /\ \A n \in 0..MaxSplit :
          LET q == [i \in 1..n |-> i]
              b == createBatches(q, MAX_INSTRUCTIONS)
          IN /\ Len(b) * MAX_INSTRUCTIONS >= n
             /\ (Len(b) - 1) * MAX_INSTRUCTIONS < n
             /\ \A k \in 1..Len(b) : Len(b[k]) \in 1..MAX_INSTRUCTIONS
             /\ Flatten(b) = q
             /\ n = 23 => [k \in 1..Len(b) |-> Len(b[k])] = <<10, 10, 3>>
    /\ (run.phase # "idle" /\ run.next > 1) =>
          LET b == createBatches(run.safe, MAX_INSTRUCTIONS)
              batch == b[run.next - 1]
          IN /\ run.next - 1 <= Len(b)
             /\ \A i \in 1..Len(run.inTx) : \E j \in 1..Len(batch) :
                   run.inTx[i] = batch[j]
             /\ (Len(run.inTx) = Len(batch) /\ ~run.dryRun) =>
                   /\ run.submissions # <<>>
                   /\ \A a \in 1..Len(run.submissions) :
                         /\ run.submissions[a].accounts = Pubkeys(batch)
                         /\ run.submissions[a].sig[1] = <<ghost.runs, run.next - 1>>

\* the second batch of a list of more than ten accounts was submitted whole
C16_Witness ==
    /\ run.next = 3
    /\ Len(run.safe) > MAX_INSTRUCTIONS
    /\ run.submissions # <<>>
    /\ Len(run.inTx) = Len(run.safe) - MAX_INSTRUCTIONS

\* C17: an account that is in the persisted whitelist or in the static
\* configuration whitelist (one of them is enough) is denied by the gate,
\* and no transaction that is built or submitted holds it, also when it
\* entered the whitelist after the scan approved it.
C17_WhitelistedNeverReclaimed ==
    /\ \A i \in 1..Len(run.safe) :
          LET pk == run.safe[i].pubkey IN
          \A wl \in {Whitelists, [db |-> {pk}, cfg |-> {}], [db |-> {}, cfg |-> {pk}]} :
              (pk \in wl.db \cup wl.cfg) =>
                  ~checkAccount(run.safe[i], store, wl, totalReclaimedThisRun,
                                now, env).allowed
    /\ \A i \in 1..Len(run.inTx) :
          run.inTx[i].pubkey \notin dbWhitelist \cup cfgWhitelist
    /\ \A a \in 1..Len(run.submissions) :
          Range(run.submissions[a].accounts) \cap (dbWhitelist \cup cfgWhitelist) = {}
    /\ \A i \in 1..Len(run.successful) :
          run.successful[i].pubkey \notin dbWhitelist \cup cfgWhitelist

\* an approved account that is now in the configuration whitelist only was
\* turned down while the rest of its batch was submitted
C17_Witness ==
    /\ run.submissions # <<>>
    /\ \E i \in 1..Len(run.safe) :
          /\ run.safe[i].pubkey \in cfgWhitelist \ dbWhitelist
          /\ Failure(run.safe[i].pubkey, ReasonWhitelist) \in Range(run.failed)

\* C18: when a run that is not a dry run returns, the history holds exactly
\* one row for every account that entered the run, so the rows added are as
\* many as the outcomes reported.
C18_OneHistoryRowPerOutcome ==
    (run.phase = "done" /\ ~run.dryRun) =>
        /\ \A i \in 1..Len(run.safe) :
              Reported(history, run.safe[i].pubkey) = 1
        /\ Len(history) = Len(run.successful) + Len(run.failed)

\* the fields of the rows that a configuration error must leave alone
Guarded(s) ==
    [pk \in DOMAIN s |->
        [status |-> s[pk].status, closeAuthority |-> s[pk].closeAuthority,
         operatorCanClose |-> s[pk].operatorCanClose,
         reclaimableSince |-> s[pk].reclaimableSince]]

\* C19: a reclaim run started while the operator wallet cannot be read (one
\* of the two configuration errors) changes no status, authority field or
\* reclaimableSince of any account and appends no history row.
C19_ConfigErrorNoMutation ==
    [][(ghost'.runs # ghost.runs /\ ~walletReadable)
          => (Guarded(store') = Guarded(store) /\ history' = history)]_vars

\* C20: a reclaim run that is not a dry run submits a transaction on
\* mainnet-beta only if the user passed -y or answered the prompt with yes.
C20_MainnetNeedsConfirmation ==
    (run.submissions # <<>> /\ run.network = "mainnet-beta") => run.confirmed

\* C21: every account for which processBatch builds a close instruction has,
\* on the chain as it is when the batch is built, the operator as its close
\* authority, also when the authority moved after the scan approved it.
C21_InstructionOnlyWithAuthority ==
    [][(run.phase = "reclaiming" /\ run'.next = run.next + 1)
       => \A i \in 1..Len(run'.inTx) :
             OperatorIsAuthority(chain[run'.inTx[i].pubkey])]_vars

\* the run's scan observed A, B and C itself: the authority fields of the
\* imported rows are filled in as the chain has them
E2EScanned ==
    /\ store[1].operatorCanClose
    /\ store[3].operatorCanClose
    /\ store[2].closeAuthority = OtherKey

\* C22: with A, B, C imported and MIN_IDLE_DAYS = 0, a reclaim run whose
\* scan observes the three accounts approves exactly A and C; a dry run then
\* reports two would-reclaim results, appends no history row and changes no
\* status; a real run submits one transaction holding A and C and, once it
\* is confirmed, has A and C reclaimed, two history rows with that
\* transaction's signature, the budget counter advanced by their lamports,
\* and B active.
C22_EndToEnd ==
    [][/\ (Idle /\ ghost'.runs = 1 /\ E2EScanned')
            => Pubkeys(run'.safe) = <<1, 3>>
       /\ (run.phase = "reclaiming" /\ run'.phase = "done" /\ E2EScanned) =>
             IF run.dryRun
             THEN /\ Pubkeys(run'.successful) = <<1, 3>>
                  /\ run'.submissions = <<>>
                  /\ history' = <<>>
                  /\ \A pk \in E2EKeys : store'[pk].status = "active"
             ELSE LET s == run'.submissions IN
                  /\ s # <<>>
                  /\ \A a \in 1..Len(s) : s[a].accounts = <<1, 3>>
                  /\ s[Len(s)].confirmed =>
                        /\ store'[1].status = "reclaimed"
                        /\ store'[3].status = "reclaimed"
                        /\ store'[2].status = "active"
                        /\ Len(history') = 2
                        /\ \A i \in 1..2 :
                              /\ history'[i].status = "success"
                              /\ history'[i].txSignature = s[Len(s)].sig
                        /\ {history'[1].pubkey, history'[2].pubkey} = {1, 3}
                        /\ totalReclaimedThisRun' = RentOf(1) + RentOf(3)]_vars

\* C23: at any time at most one scan or reclaim run is in progress on the
\* store and at most one reclaim transaction is awaiting confirmation; a
\* scheduled run does not start while an earlier one has not returned.
C23_OneRunAtATime ==
    /\ Cardinality({j \in 1..Len(run.jobs) : run.jobs[j].phase # "done"}) <= 1
    /\ Cardinality(JobsIn("inflight")) <= 1

\* C24: in a reclaim run launched with --max that is not a dry run, the
\* lamports reclaimed never add up to more than the --max amount.
C24_MaxOptionIsTheCap ==
    (run.max # NoMax /\ ~run.dryRun) =>
        /\ totalReclaimedThisRun <= run.max[1]
        /\ run.totalLamportsReclaimed <= run.max[1]

\* every status of a scan result, reclaimable or skipped
Statuses(r) == r.result.reclaimable \o r.result.skipped

\* C25: a scan reports operatorCanClose (and reclaimable) only for an
\* existing token-program account whose effective close authority (the
\* close-authority field when it is set, the token owner otherwise) is the
\* operator key, and turns the stored flag on only for such an account;
\* system-owned and other program-owned accounts are reported with
\* operatorCanClose = false and never as reclaimable.
C25_AuthorityOnlyForOperator ==
    Idle =>
    \A f \in FetchOutcomes :
        LET r == ScanNow(store, f)
            sts == Statuses(r)
        IN /\ \A i \in 1..Len(sts) :
                 LET st == sts[i]
                     info == chain[st.pubkey]
                 IN /\ st.isReclaimable <=> st.operatorCanClose
                    /\ st.operatorCanClose =>
                          /\ info.exists /\ info.owner = "token"
                          /\ (IF info.closeAuthorityOption = 1
                              THEN info.closeAuthority ELSE info.tokenOwner)
                                = OperatorKey
                    /\ (info.exists /\ info.owner # "token") =>
                          ~st.operatorCanClose /\ ~st.isReclaimable
           /\ \A i \in 1..Len(r.result.reclaimable) :
                 OperatorIsAuthority(chain[r.result.reclaimable[i].pubkey])
           /\ \A pk \in DOMAIN store :
                 (r.db[pk].operatorCanClose /\ ~store[pk].operatorCanClose)
                    => OperatorIsAuthority(chain[pk])

\* a scan at tick 1 found account 2, a token account without close
\* authority whose token owner is the operator, closable, next to a
\* system-owned account 1 that is not
C25_Witness ==
    /\ chain[2] = TokenOwnerOp(2)
    /\ store[2].operatorCanClose
    /\ store[2].closeAuthority = OperatorKey
    /\ store[2].reclaimableSince = At(1)
    /\ chain[1] = SystemOwned(1)
    /\ ~store[1].operatorCanClose

\* C26: checkAccount answers with the reason of the first check that fails,
\* the checks taken in the order authority, whitelist, executable,
\* existence, idle duration, budget, whichever later checks fail as well;
\* it allows the account only when none fails.
C26_FirstFailingReason ==
    \A i \in {1, Len(run.safe)} \cap DOMAIN run.safe :
    \A o, x, e \in BOOLEAN :
    \A wl \in {Whitelists, [db |-> {run.safe[i].pubkey}, cfg |-> {}]} :
    \A since \in {NoTime, At(0)} : \A minIdleDays \in {0, 1} :
    \A total \in {totalReclaimedThisRun, CapLamports} :
        LET pk == run.safe[i].pubkey
            a == [run.safe[i] EXCEPT !.operatorCanClose = o, !.exists = x,
                                     !.executable = e]
            s == [store EXCEPT ![pk].reclaimableSince = since]
            cfg == [env EXCEPT !.minIdleDays = minIdleDays]
            c == checkAccount(a, s, wl, total, now, cfg)
            listed == pk \in wl.db \cup wl.cfg
            young == \/ since = NoTime
                     \/ now - TimeOf(since) < minIdleDays * TicksPerDay
            over == total + a.lamports > CapLamports
        IN /\ ~o => c = Deny(ReasonAuthority)
           /\ (o /\ listed) => c = Deny(ReasonWhitelist)
           /\ (o /\ ~listed /\ e) => c = Deny(ReasonExecutable)
           /\ (o /\ ~listed /\ ~e /\ ~x) => c = Deny(ReasonClosed)
           /\ (o /\ ~listed /\ ~e /\ x /\ young) =>
                 c = Deny(IF since = NoTime THEN ReasonNotIdleYet
                          ELSE ReasonTooRecent)
           /\ (o /\ ~listed /\ ~e /\ x /\ ~young /\ over) => c = Deny(ReasonLimit)
           /\ (o /\ ~listed /\ ~e /\ x /\ ~young /\ ~over) => c = Allow

\* a batch turned down an account that has neither the authority flag nor
\* an idle clock: the reason reported is the authority one
C26_Witness ==
    \E i \in 1..Len(run.safe) :
        /\ ~run.safe[i].operatorCanClose
        /\ store[run.safe[i].pubkey].reclaimableSince = NoTime
        /\ Failure(run.safe[i].pubkey, ReasonAuthority) \in Range(run.failed)
        /\ Failure(run.safe[i].pubkey, ReasonNotIdleYet) \notin Range(run.failed)

\* C27: a batch step that only evaluates the gate (a dry run, or a batch
\* for which no transaction is built) leaves the account store, both
\* whitelists and the budget counter as they were, and the gate gives the
\* same answers after it as before; the budget counter grows only in a step
\* that commits a confirmed transaction, and then by the lamports of the
\* accounts in it.
C27_GateHasNoEffect ==
    [][LET s == run'.submissions
           confirmed == s # <<>> /\ s[Len(s)].confirmed
       IN
       /\ (run.phase = "reclaiming" /\ run'.next = run.next + 1 /\ s = <<>>)
          => /\ store' = store
             /\ dbWhitelist' = dbWhitelist
             /\ cfgWhitelist' = cfgWhitelist
             /\ totalReclaimedThisRun' = totalReclaimedThisRun
             /\ \A i \in 1..Len(run.safe) :
                   checkAccount(run.safe[i], store', Whitelists',
                                totalReclaimedThisRun', now', env')
                     = checkAccount(run.safe[i], store, Whitelists,
                                    totalReclaimedThisRun, now, env)
       /\ totalReclaimedThisRun' > totalReclaimedThisRun
          => /\ run.phase = "reclaiming"
             /\ ~run.dryRun
             /\ confirmed
             /\ totalReclaimedThisRun'
                   = totalReclaimedThisRun + SumSeq(Lamports(run'.inTx))]_vars

\* a real run whose only account the gate turned down, so that the batch was
\* nothing but gate evaluation: nothing was reclaimed or recorded
C27_Witness ==
    /\ ~run.dryRun
    /\ run.phase = "done"
    /\ run.inTx = <<>>
    /\ \E i \in 1..Len(run.failed) : run.failed[i].error = ReasonWhitelist
    /\ totalReclaimedThisRun = 0
    /\ history = <<>>
    /\ \A pk \in DOMAIN store : store[pk].status = "active"

\* C28: after a scan, every account of the scan set that was fetched and
\* exists on-chain has in the store the authority fields the scan found for
\* it (closeAuthority, operatorCanClose), status active, the lamports seen
\* and lastChecked at the time of the scan, whatever branch classified it
\* and whether it was fetched in bulk or one by one.
C28_EveryBranchPersists ==
    Idle =>
    \A f \in FetchOutcomes :
        LET r == ScanNow(store, f)
            sts == Statuses(r)
        IN \A i \in 1..Len(sts) :
              LET pk == sts[i].pubkey IN
              (chain[pk].exists /\ (f.bulkOk \/ pk \notin f.fetchFail)) =>
                  /\ r.db[pk].closeAuthority = sts[i].closeAuthority
                  /\ r.db[pk].operatorCanClose = sts[i].operatorCanClose
                  /\ r.db[pk].status = "active"
                  /\ r.db[pk].lamports = chain[pk].lamports
                  /\ r.db[pk].lastChecked = At(now)

\* C29: when the chain shows a fetched account of the scan set absent, the
\* scan leaves its row with status closed and lamports 0, reports it once,
\* among the skipped and never among the reclaimable, and leaves its
\* reclaimableSince, closeAuthority and operatorCanClose as they were.
C29_AbsentBecomesClosed ==
    Idle =>
    \A f \in FetchOutcomes :
        LET r == ScanNow(store, f) IN
        \A pk \in Range(r.result.scanSet) :
            (~chain[pk].exists /\ (f.bulkOk \/ pk \notin f.fetchFail)) =>
                /\ r.db[pk].status = "closed"
                /\ r.db[pk].lamports = 0
                /\ Reported(r.result.skipped, pk) = 1
                /\ Reported(r.result.reclaimable, pk) = 0
                /\ \A i \in 1..Len(r.result.skipped) :
                      r.result.skipped[i].pubkey = pk =>
                          /\ ~r.result.skipped[i].isReclaimable
                          /\ ~r.result.skipped[i].exists
                /\ r.db[pk].reclaimableSince = store[pk].reclaimableSince
                /\ r.db[pk].closeAuthority = store[pk].closeAuthority
                /\ r.db[pk].operatorCanClose = store[pk].operatorCanClose

\* a scan at tick 1 found account 1 gone: closed, no lamports, its idle
\* clock and authority fields as the scan at tick 0 left them
C29_Witness ==
    /\ chain[1] = Absent
    /\ store[1].status = "closed"
    /\ store[1].lamports = 0
    /\ store[1].lastChecked = At(1)
    /\ store[1].reclaimableSince = At(0)
    /\ store[1].operatorCanClose
    /\ store[1].closeAuthority = OperatorKey

\* C30: the accounts of a confirmed transaction that the stopped process did
\* not record are absent on-chain and stay in the store as the run found
\* them (active) until a scan sets them to closed; a scan that fetches such
\* an account sets it to closed and does not report it reclaimable; and no
\* batch built or submitted afterwards holds it.
C30_LostAccountsRecovered ==
    /\ \A pk \in ghost.lost :
          /\ ~chain[pk].exists
          /\ \/ store[pk] = ApprovedRow(pk)
             \/ store[pk].status = "closed"
    /\ \A i \in 1..Len(run.inTx) : run.inTx[i].pubkey \notin ghost.lost
    /\ \A a \in 1..Len(run.submissions) :
          Range(run.submissions[a].accounts) \cap ghost.lost = {}
    /\ Idle =>
          \A f \in FetchOutcomes :
              LET r == ScanNow(store, f) IN
              \A pk \in ghost.lost :
                  /\ Reported(r.result.reclaimable, pk) = 0
                  /\ (store[pk].status = "active"
                        /\ (f.bulkOk \/ pk \notin f.fetchFail))
                     => r.db[pk].status = "closed"

\* the process stopped with account 2 closed on-chain and unrecorded; the
\* scan of the next reclaim run set it to closed and the run ended
C30_Witness ==
    /\ 2 \in ghost.lost
    /\ store[2].status = "closed"
    /\ ghost.runs = 1
    /\ Idle

\* the position of pk in the list of pubkeys
IndexOf(pks, pk) == CHOOSE i \in DOMAIN pks : pks[i] = pk

\* the statuses of the list follow the order of the scan set
InScanOrder(q, scanSet) ==
    \A i, j \in DOMAIN q :
        i < j => IndexOf(scanSet, q[i].pubkey) < IndexOf(scanSet, q[j].pubkey)

Passing(batch) ==
    {batch[j].pubkey : j \in {i \in DOMAIN batch :
        checkAccount(batch[i], store, Whitelists, totalReclaimedThisRun,
                     now, env).allowed}}

\* on-chain: gone, or a token account holding tokens again
DriftedInfo(info) ==
    \/ ~info.exists
    \/ info.owner = "token" /\ info.decodes /\ info.amount > 0

\* on-chain: still a token account with no tokens
EmptyTokenInfo(info) ==
    info.exists /\ info.owner = "token" /\ info.decodes /\ info.amount = 0

\* C32: in a batch of a live run, an account the gate lets through whose
\* token balance is no longer zero, or which is gone, gets no instruction: it
\* is in no submission of the batch, it gets exactly one failed result
\* ("Could not create close instruction"), and its row and the chain are
\* left alone; the transaction of the batch holds exactly the other accounts
\* that yield an instruction, in batch order, and every attempt submits that
\* one transaction.
C32_DriftSkipsOnlyThatAccount ==
    [][(run.phase = "reclaiming" /\ ~run.dryRun /\ run'.next = run.next + 1) =>
        LET batch == createBatches(run.safe, MAX_INSTRUCTIONS)[run.next]
            none == {pk \in Passing(batch) : DriftedInfo(chain[pk])}
            close == {pk \in Passing(batch) : EmptyTokenInfo(chain[pk])}
        IN /\ Pubkeys(run'.inTx) = FilterSeq(Pubkeys(batch), close)
           /\ close # {} => run'.submissions # <<>>
           /\ \A a \in DOMAIN run'.submissions :
                  run'.submissions[a].accounts = Pubkeys(run'.inTx)
           /\ \A pk \in none :
                 /\ pk \notin Range(Pubkeys(run'.inTx))
                 /\ Reported(run'.failed, pk) = Reported(run.failed, pk) + 1
                 /\ Reported(run'.successful, pk) = 0
                 /\ \E i \in DOMAIN run'.failed :
                       run'.failed[i] =
                           Failure(pk, "Could not create close instruction")
                 /\ store'[pk] = store[pk]
                 /\ chain'[pk] = chain[pk]]_vars

\* account 1 had tokens again when the first batch of a live run was built:
\* it failed alone, and accounts 2 and 3 were closed by one confirmed
\* transaction
C32_Witness ==
    /\ ~run.dryRun
    /\ chain[1] = TokenOpFunded(1)
    /\ \E i \in DOMAIN run.failed :
          run.failed[i] = Failure(1, "Could not create close instruction")
    /\ Pubkeys(run.inTx) = <<2, 3>>
    /\ store[1].status = "active"
    /\ store[2].status = "reclaimed"
    /\ store[3].status = "reclaimed"

\* C33: when no account of the batch both passes the gate and is still an
\* empty token account on-chain, the batch step submits nothing (no attempt,
\* no retry), writes nothing to the store, the history or the run counter,
\* leaves the chain alone and gives every account of the batch one failed
\* result; unless it was the last batch, the run goes on with the next one.
C33_EmptyBatchSubmitsNothing ==
    [][(run.phase = "reclaiming" /\ run'.next = run.next + 1) =>
        LET batches == createBatches(run.safe, MAX_INSTRUCTIONS)
            batch == batches[run.next]
        IN {pk \in Passing(batch) : EmptyTokenInfo(chain[pk])} = {} =>
              /\ run'.submissions = <<>>
              /\ run'.inTx = <<>>
              /\ run'.successful = run.successful
              /\ Pubkeys(run'.failed) = Pubkeys(run.failed) \o Pubkeys(batch)
              /\ store' = store
              /\ history' = history
              /\ chain' = chain
              /\ totalReclaimedThisRun' = totalReclaimedThisRun
              /\ run.next < Len(batches) => run'.phase = "reclaiming"]_vars

\* every account of the first batch held tokens again: nothing was sent for
\* it, and the run went on to the second batch and closed account 11
C33_Witness ==
    /\ ~run.dryRun
    /\ 11 \in DOMAIN store
    /\ \A pk \in 1..MAX_INSTRUCTIONS : chain[pk] = TokenOpFunded(pk)
    /\ Pubkeys(run.failed) = [i \in 1..MAX_INSTRUCTIONS |-> i]
    /\ Pubkeys(run.inTx) = <<11>>
    /\ store[11].status = "reclaimed"
    /\ \A pk \in 1..MAX_INSTRUCTIONS :
          store[pk].status = "active" /\ \A i \in DOMAIN history : history[i].pubkey # pk

\* C34: when the counter of the run is at or above the cap after a batch,
\* the loop of reclaimAccounts is left even if batches remain: the results
\* are those of the batches taken so far, reclaimAccounts returns them, and
\* the step that follows is the end of the command, which builds and submits
\* nothing and leaves store, history and chain alone.
C34_StopsAtCap ==
    [][/\ (run.phase = "reclaiming" /\ run'.next = run.next + 1
              /\ totalReclaimedThisRun' >= CapLamports) =>
           /\ run'.phase = "done"
           /\ Len(run'.successful) + Len(run'.failed)
                 = Len(Flatten(SubSeq(createBatches(run.safe, MAX_INSTRUCTIONS),
                                      1, run.next)))
       /\ run.phase = "done" =>
           /\ run'.phase = "idle"
           /\ store' = store
           /\ history' = history
           /\ chain' = chain
           /\ totalReclaimedThisRun' = totalReclaimedThisRun]_vars

\* the first batch of ten took the run over its cap: the run is over with
\* the second batch not taken, account 11 as it was
C34_Witness ==
    /\ run.phase = "done"
    /\ ~run.dryRun
    /\ run.next = 2
    /\ Len(run.safe) > MAX_INSTRUCTIONS
    /\ totalReclaimedThisRun >= CapLamports
    /\ Len(run.successful) = MAX_INSTRUCTIONS
    /\ store[11] = ApprovedRow(11)
    /\ chain[11] = TokenOp(11)

\* ------------------------------------------- a scan whose store writes fail
\* The scanner on its own, as in SpecScan, with scans in which the store
\* writes made for some accounts throw (save() cannot write the database
\* file) while the fetches answer or fail as before.
WriteOutcomes ==
    {[bulkOk |-> b, fetchFail |-> F, badWrite |-> W] :
        b \in BOOLEAN, F \in {{}}, W \in (SUBSET (DOMAIN store)) \ {{}}}

\* `scan` while the database file cannot be written for some accounts
ScanCmdWriteFails ==
    /\ Idle
    /\ \E f \in WriteOutcomes :
          LET r == scanAccounts(store, rowOrder, Whitelists, chain, f.bulkOk,
                                f.fetchFail, walletReadable, now, env, f.badWrite)
          IN /\ store' = r.db
             /\ ghost' = ScanGhost(r.result.scanSet)
    /\ UNCHANGED <<rowOrder, history, dbWhitelist, cfgWhitelist, chain, now, env,
                   walletReadable, treasurySet, totalReclaimedThisRun, run>>

ScanFailNext ==
    \/ Tick
    \/ ScanCmd
    \/ ScanCmdWriteFails

SpecScanFail == ScanInit /\ [][ScanFailNext]_vars

\* C37: whatever the fetches and the store writes of a scan do, every
\* account of the scan set appears at most once in reclaimable and skipped
\* taken together, and the two lists together are no longer than total.
C37_ReportedAtMostOnce ==
    Idle =>
    \A f \in FetchOutcomes \cup WriteOutcomes :
        LET r == ScanNow(store, f) IN
        /\ \A pk \in Range(r.result.scanSet) : Reported(Statuses(r), pk) <= 1
        /\ Len(r.result.reclaimable) + Len(r.result.skipped) <= r.result.total

\* C35: when the store writes made for an account of the scan set throw
\* during a scan, the scan does not report that account with a reason that
\* is not the write's: not "Failed to fetch account info" when its fetch
\* answered, not "Failed to decode token account" when its data decodes, and
\* not as reclaimable.
C35_WriteFailureNotSwallowed ==
    Idle =>
    \A f \in WriteOutcomes :
        LET r == ScanNow(store, f) IN
        \A i \in DOMAIN Statuses(r) :
            LET st == Statuses(r)[i] IN
            st.pubkey \in f.badWrite =>
                /\ st.skipReason # "Failed to fetch account info"
                /\ st.skipReason = "Failed to decode token account" =>
                       ~chain[st.pubkey].decodes
                /\ ~st.isReclaimable

\* C38: a scan leaves the row of an account it could not fetch as it was,
\* so the account is still active and in the scan set of the next scan; and
\* a scan turns a row to closed only for an account it fetched and the chain
\* showed absent.
C38_FetchFailureKeepsStatus ==
    Idle =>
    \A f \in FetchOutcomes :
        LET r == ScanNow(store, f) IN
        \A pk \in Range(r.result.scanSet) :
            /\ (~f.bulkOk /\ pk \in f.fetchFail) =>
                  /\ r.db[pk] = store[pk]
                  /\ r.db[pk].status = "active"
                  /\ pk \in Range(getActiveAccounts(r.db, rowOrder))
            /\ r.db[pk].status = "closed" =>
                  /\ ~chain[pk].exists
                  /\ f.bulkOk \/ pk \notin f.fetchFail

\* account 2 is gone on-chain, but its fetch failed in the scan that found
\* account 1 gone: row 2 is still as imported, active
C38_Witness ==
    /\ ~chain[1].exists
    /\ ~chain[2].exists
    /\ store[1].status = "closed"
    /\ store[2] = ImportedRow

\* ------------------------------------------------- runs at a fixed spacing
\* Scan-and-reclaim runs (the reclaim command launched again and again, or
\* the callback of the cron command) made every env.schedule ticks from tick
\* 0 on, up to tick MaxCadenceTime.  Accounts 1 and 2 were imported; account
\* 1 is and stays an empty token account the operator may close; every fetch
\* answers; a transaction confirms or fails.  A day is TicksPerDay ticks, so
\* a schedule of 1 tick is more often than every MIN_IDLE_DAYS for every
\* MIN_IDLE_DAYS > 0.
MaxCadenceTime == 8

Schedules == {1, 2, 3, 4}

CadenceKeys == {1, 2}

CadenceEnvs ==
    [tz : {0}, minIdleDays : {1, 2}, maxReclaimSolPerRun : {1},
     schedule : Schedules]

CadenceInit ==
    /\ store = [pk \in CadenceKeys |-> ImportedRow]
    /\ rowOrder = <<1, 2>>
    /\ history = <<>>
    /\ dbWhitelist = {}
    /\ cfgWhitelist = {}
    /\ chain \in [CadenceKeys -> {TokenOp(1), TokenOp(2), TokenOther(2), Absent}]
    /\ chain[1] = TokenOp(1)
    /\ chain[2] \in {TokenOp(2), TokenOther(2), Absent}
    /\ now = 0
    /\ env \in CadenceEnvs
    /\ walletReadable = TRUE
    /\ treasurySet = TRUE
    /\ totalReclaimedThisRun = 0
    /\ run = IdleRun
    /\ ghost = NoGhost

\* the run due at this tick has been made
RunMade == ghost.runs = (now \div env.schedule) + 1

\* the scheduled run: resetRunState, scan, filter, and reclaimAccounts next
CadenceRun ==
    /\ Idle
    /\ now % env.schedule = 0
    /\ ~RunMade
    /\ StartRun(FALSE, "devnet", TRUE, NoMax, FetchedAll, 1)

\* time passes between two runs
CadenceTick ==
    /\ Idle
    /\ now < MaxCadenceTime
    /\ now % env.schedule = 0 => RunMade
    /\ now' = now + 1
    /\ UNCHANGED <<store, rowOrder, history, dbWhitelist, cfgWhitelist, chain, env,
                   walletReadable, treasurySet, totalReclaimedThisRun, run,
                   ghost>>

CadenceNext ==
    \/ CadenceRun
    \/ CadenceTick
    \/ BatchStep
    \/ Exit

SpecCadence == CadenceInit /\ [][CadenceNext]_vars

\* every transaction the runs submitted so far confirmed
AllConfirmed == \A i \in DOMAIN history : history[i].status = "success"

\* C36: whatever the spacing of the runs and MIN_IDLE_DAYS > 0, at the end
\* of the horizon (the idle time after the first scan stamped account 1 has
\* long passed, at least two more runs were made since, and no transaction
\* failed) account 1 is reclaimed.
C36_EventuallyReclaimed ==
    (now = MaxCadenceTime /\ Idle /\ (now % env.schedule = 0 => RunMade)
        /\ AllConfirmed /\ env.minIdleDays > 0) =>
        store[1].status = "reclaimed"

\* ------------------------------------- a run cut short between two writes
\* As SpecCrash, and the process may also stop inside the recording of one
\* account of the confirmed transaction: after updateAccountStatus(pubkey,
\* 'reclaimed') was saved and before addReclaimHistory.
CrashBetweenWrites ==
    /\ run.phase = "reclaiming"
    /\ ~run.dryRun
    /\ run.keypair \/ walletReadable
    /\ LET batch == createBatches(run.safe, MAX_INSTRUCTIONS)[run.next]
           inTx == buildInstructions(batch, store, Whitelists, chain,
                                     totalReclaimedThisRun, now, env).inTx
       IN /\ inTx # <<>>
          /\ TxValid(inTx, chain)
          /\ \E k \in 0..(Len(inTx) - 1) :
                LET c == commitSuccess([rows |-> store, history |-> history],
                                       SubSeq(inTx, 1, k),
                                       <<<<ghost.runs, run.next>>, 1>>, now, <<>>)
                IN /\ store' = updateAccountStatusOnly(c.db.rows, inTx[k + 1].pubkey,
                                                       "reclaimed", now)
                   /\ history' = c.db.history
                   /\ ghost' = [ghost EXCEPT
                         !.lost = @ \cup Range(Pubkeys(SubSeq(inTx, k + 2, Len(inTx)))),
                         !.reclaimedEver = @ \cup Range(Pubkeys(SubSeq(inTx, 1, k + 1)))]
          /\ chain' = [pk \in DOMAIN chain |->
                         IF pk \in Range(Pubkeys(inTx)) THEN Absent ELSE chain[pk]]
    /\ totalReclaimedThisRun' = 0
    /\ run' = IdleRun
    /\ UNCHANGED <<rowOrder, dbWhitelist, cfgWhitelist, now, env, walletReadable,
                   treasurySet>>

CrashWritesNext ==
    \/ BatchStep
    \/ CrashAfterConfirm
    \/ CrashBetweenWrites
    \/ Exit
    \/ ScanCmd
    \/ ReclaimCmd

SpecCrashWrites == CrashInit /\ [][CrashWritesNext]_vars

RECURSIVE getTotalReclaimed(_)
\* Database.getTotalReclaimed: SUM(lamports_reclaimed) over the success rows
getTotalReclaimed(h) ==
    IF h = <<>> THEN 0
    ELSE (IF Head(h).status = "success" THEN Head(h).lamportsReclaimed ELSE 0)
         + getTotalReclaimed(Tail(h))

RECURSIVE ReclaimedLamports(_, _)
\* the lamports of the rows of pks whose status is reclaimed
ReclaimedLamports(s, pks) ==
    IF pks = <<>> THEN 0
    ELSE (IF s[Head(pks)].status = "reclaimed" THEN s[Head(pks)].lamports ELSE 0)
         + ReclaimedLamports(s, Tail(pks))

\* C39: in every state of the store, also one left by a process that
\* stopped inside the recording of a confirmed batch, every account with
\* status reclaimed has a success history row carrying a transaction id, and
\* the lamports of the success rows add up to the lamports of the reclaimed
\* accounts.
C39_ReclaimedHasHistory ==
    /\ \A pk \in DOMAIN store :
          store[pk].status = "reclaimed" =>
              \E i \in DOMAIN history :
                  /\ history[i].pubkey = pk
                  /\ history[i].status = "success"
                  /\ history[i].txSignature # NoSig
    /\ getTotalReclaimed(history) = ReclaimedLamports(store, rowOrder)

\* the scheduled runs that are between their scan and their last batch
Processing ==
    {j \in 1..Len(run.jobs) : run.jobs[j].phase \in {"reclaiming", "inflight"}}

\* C40: while the batches of a scheduled run are being processed, the
\* counter totalReclaimedThisRun does not go down and no resetRunState is
\* made (no other run starts and sets it to 0).
C40_CounterBelongsToOneRun ==
    [][Processing # {} =>
          /\ totalReclaimedThisRun' >= totalReclaimedThisRun
          /\ Len(run'.jobs) = Len(run.jobs)]_vars

====
